---- MODULE Spec2Model ----
(***************************************************************************)
(* A model of the fMRI-Viewer field interpretation pipeline:               *)
(*   - settings/settings.py            SettingsManager, FilterSettings     *)
(*   - field_organization/field_manager.py   FieldManager                  *)
(*   - interpreters/slice_timing_interpreter.py   the slice-timing analyzer*)
(*                                                                         *)
(* Python values are encoded as follows.                                   *)
(*   dict            a function whose DOMAIN is the set of keys            *)
(*   list            a sequence                                            *)
(*   str             a TLA+ string where it is only compared, a sequence   *)
(*                   of one-character strings where it is searched         *)
(*   None            the record None (raw tag values), or the empty        *)
(*                   sequence where the code never produces an empty list  *)
(***************************************************************************)
EXTENDS Integers, Sequences, FiniteSets, TLC

VARIABLES
    settings_manager,    \* settings.py: the global _settings_manager
    field_manager,       \* field_manager.py: the global _field_manager
    returned,            \* the value the last FieldManager call returned
    timing_info,         \* the raw value handed to _extract_acquisition_order
    acquisition_order,   \* what _extract_acquisition_order returned
    last_timing_range,   \* slice_timing_interpreter.py: global _last_timing_range
    pattern_info,        \* what _analyze_acquisition_pattern returned
    timing_context,      \* the dict handed to interpret_slice_timing
    timing_result,       \* what interpret_slice_timing returned
    pc,                  \* the position of the analysis in progress
    interpreter,         \* the field interpreter being called
    raw_value,           \* the raw value handed to it
    interpreted,         \* what it returned, or the exception it raised
    requests,            \* the requests in progress, each with its local variables
    in_force             \* the filter settings that were in force while they ran

vars == <<settings_manager, field_manager, returned, timing_info,
          acquisition_order, last_timing_range, pattern_info,
          timing_context, timing_result, pc,
          interpreter, raw_value, interpreted, requests, in_force>>

catalog_vars == <<settings_manager, field_manager, returned>>

timing_vars == <<timing_info, acquisition_order, last_timing_range,
                 pattern_info, timing_context, timing_result, pc>>

interpreter_vars == <<interpreter, raw_value, interpreted>>

request_vars == <<requests, in_force>>

(***************************************************************************)
(* Generic helpers for dicts and lists.                                    *)
(***************************************************************************)

\* The empty dict.
EmptyDict == << >>

\* dict.get(key, default)
Get(d, key, default) == IF key \in DOMAIN d THEN d[key] ELSE default

\* d[key] = value on a dict
Put(d, key, value) ==
    [k \in (DOMAIN d) \cup {key} |-> IF k = key THEN value ELSE d[k]]

\* The set of elements of a list.
Range(s) == {s[i] : i \in DOMAIN s}

\* list.index(x) as a 0-based position; callers guard membership.
IndexOf(s, x) == (CHOOSE i \in DOMAIN s : s[i] = x /\ \A j \in 1..(i - 1) : s[j] # x) - 1

\* Lexicographic "less than" on equal-length tuples of integers, as Python
\* compares tuples.
RECURSIVE TupleLess(_, _)
TupleLess(a, b) ==
    IF a = << >> \/ b = << >> THEN Len(a) < Len(b)
    ELSE IF Head(a) # Head(b) THEN Head(a) < Head(b)
    ELSE TupleLess(Tail(a), Tail(b))

(***************************************************************************)
(* The data the catalog is built from.  field_metadata.json and the        *)
(* language files are resources read at run time; the model draws them     *)
(* from the sets below.                                                    *)
(***************************************************************************)

CATEGORY_ORDER ==
    << "FILE_INFO", "PATIENT_INFO", "INSTITUTION_EQUIPMENT", "STUDY_INFO",
       "SEQUENCE_INFO", "ACQUISITION_PARAMS", "IMAGE_GEOMETRY",
       "IMAGE_ENCODING", "SLICE_TIMING" >>

\* Entries a field_metadata.json may hold.  META_TE and META_TR tie on
\* (category, priority); META_VENDOR_NOTE has a category outside CATEGORY_ORDER.
FieldData ==
    << [index |-> "META_TR", tag |-> <<24, 128>>, category |-> "ACQUISITION_PARAMS",
        priority |-> 1, interpret_mode |-> "specific"],
       [index |-> "META_AGE", tag |-> <<16, 4112>>, category |-> "PATIENT_INFO",
        priority |-> 4, interpret_mode |-> "specific"],
       [index |-> "META_VENDOR_NOTE", tag |-> <<25, 4120>>, category |-> "VENDOR_PRIVATE",
        priority |-> 0, interpret_mode |-> "none"],
       [index |-> "META_TE", tag |-> <<24, 129>>, category |-> "ACQUISITION_PARAMS",
        priority |-> 1, interpret_mode |-> "specific"] >>

\* How many entries of FieldData a catalog file may use.
NumFieldData == 2

FieldUniverse == {FieldData[i] : i \in 1..(IF NumFieldData < Len(FieldData)
                                            THEN NumFieldData ELSE Len(FieldData))}

\* The catalog files: every listing of distinct entries, in any file order.
FieldMetadataFiles ==
    UNION {{s \in [1..n -> FieldUniverse] : \A i, j \in 1..n : i # j => s[i] # s[j]}
           : n \in 0..Cardinality(FieldUniverse)}

\* Python's order on the identifiers, as a listing in ascending order.
IndexOrder == << "META_AGE", "META_TE", "META_TR", "META_VENDOR_NOTE" >>

\* languages/<name>.json.  A language absent from the DOMAIN has no file.
LanguageFiles ==
    [l \in {"english", "chinese_simplified"} |->
        IF l = "english"
        THEN [k \in {"META_TR", "META_AGE", "META_TE", "VALUE_YEARS"} |->
                CASE k = "META_TR" -> "Repetition Time"
                  [] k = "META_AGE" -> "Age"
                  [] k = "META_TE" -> "Echo Time"
                  [] k = "VALUE_YEARS" -> "years"]
        ELSE [k \in {"META_TR", "META_AGE", "VALUE_YEARS"} |->
                CASE k = "META_TR" -> "zh:Repetition Time"
                  [] k = "META_AGE" -> "zh:Age"
                  [] k = "VALUE_YEARS" -> "zh:years"]]

\* The languages a caller may ask for.
Languages == {"english", "chinese_simplified"}

(***************************************************************************)
(* settings/settings.py                                                    *)
(***************************************************************************)

\* FilterSettings(): both dicts empty.
NewFilterSettings == [categories |-> EmptyDict, fields |-> EmptyDict]

\* The identifiers and categories a caller may name in a visibility change.
FilterFieldKeys == {"META_TR", "META_AGE"}
FilterCategoryKeys == {"ACQUISITION_PARAMS"}

VisibilityMaps(keys) == UNION {[d -> BOOLEAN] : d \in SUBSET keys}

\* What settings.json may hold when the process starts.  "exists" is FALSE
\* when there is no file.
SettingsFiles ==
    { [exists |-> FALSE, language |-> "english", filter_settings |-> NewFilterSettings],
      [exists |-> TRUE, language |-> "chinese_simplified",
       filter_settings |-> [categories |-> ("ACQUISITION_PARAMS" :> FALSE),
                            fields |-> ("META_TR" :> FALSE @@ "META_OLD" :> FALSE)]] }

\* FilterSettings.is_field_visible
IsFieldVisible(fs, field_index) == Get(fs.fields, field_index, TRUE)

\* FilterSettings.is_category_visible
IsCategoryVisible(fs, category) == Get(fs.categories, category, TRUE)

\* FilterSettings.to_dict: a copy of both dicts.
FilterToDict(fs) == [categories |-> fs.categories, fields |-> fs.fields]

\* SettingsManager.__init__ with _load_settings.
NewSettingsManager(file) ==
    [ exists |-> TRUE,
      language |-> IF file.exists THEN file.language ELSE "english",
      filter_settings |-> NewFilterSettings,
      initialized |-> FALSE,
      stored_filter_data |-> IF file.exists THEN file.filter_settings
                             ELSE NewFilterSettings ]

\* The module before get_settings_manager() was first called.
NoSettingsManager ==
    [ exists |-> FALSE, language |-> "english", filter_settings |-> NewFilterSettings,
      initialized |-> FALSE, stored_filter_data |-> NewFilterSettings ]

\* As InitializeFilterSettings, without the test of _initialized.
InitializeFilterSettingsEveryTime(sm, complete_field_structure) ==
    LET all_field_indices ==
            [i \in DOMAIN complete_field_structure |->
                complete_field_structure[i].index]
        stored_fields == sm.stored_filter_data.fields
        stored_categories == sm.stored_filter_data.categories
        new_fields ==
            [k \in Range(all_field_indices) |->
                IF k \in DOMAIN stored_fields THEN stored_fields[k] ELSE TRUE]
    IN [sm EXCEPT !.filter_settings =
                      [categories |-> stored_categories, fields |-> new_fields],
                  !.initialized = TRUE]

\* SettingsManager.initialize_filter_settings
InitializeFilterSettings(sm, complete_field_structure) ==
    IF sm.initialized THEN sm
    ELSE LET all_field_indices ==
                 [i \in DOMAIN complete_field_structure |->
                     complete_field_structure[i].index]
             stored_fields == sm.stored_filter_data.fields
             stored_categories == sm.stored_filter_data.categories
             new_fields ==
                 [k \in Range(all_field_indices) |->
                     IF k \in DOMAIN stored_fields THEN stored_fields[k] ELSE TRUE]
         IN [sm EXCEPT !.filter_settings =
                           [categories |-> stored_categories, fields |-> new_fields],
                       !.initialized = TRUE]

\* The language property setter.
SetLanguageProperty(sm, value) == [sm EXCEPT !.language = value]

\* SettingsManager.update_filter_settings
UpdateFilterSettingsOf(sm, categories, fields) ==
    [sm EXCEPT !.filter_settings = [categories |-> categories, fields |-> fields]]

\* SettingsManager.reset_filters
ResetFiltersOf(sm) == [sm EXCEPT !.filter_settings = NewFilterSettings]

\* FilterSettings.set_field_visibility on the manager's filter settings
SetFieldVisibilityOf(sm, field_index, visible) ==
    [sm EXCEPT !.filter_settings.fields = Put(@, field_index, visible)]

\* FilterSettings.set_category_visibility on the manager's filter settings
SetCategoryVisibilityOf(sm, category, visible) ==
    [sm EXCEPT !.filter_settings.categories = Put(@, category, visible)]

(***************************************************************************)
(* field_organization/field_manager.py                                     *)
(***************************************************************************)

\* The module before get_field_manager() was first called.
NoFieldManager ==
    [ exists |-> FALSE,
      complete_field_definitions |-> << >>,
      filtered_field_definitions |-> << >>,
      translations |-> EmptyDict,
      category_fields |-> EmptyDict,
      filter_initialized |-> FALSE,
      current_language |-> "english",
      previous_filter_settings |-> << >> ]

\* FieldDefinition(...) built from one entry of the catalog file.
FieldDefinition(field_data) ==
    [ index |-> field_data.index, tag |-> field_data.tag,
      category |-> field_data.category, priority |-> field_data.priority,
      interpret_mode |-> field_data.interpret_mode, translated_name |-> "" ]

\* FieldManager._load_field_definitions
LoadFieldDefinitions(fm, data) ==
    [fm EXCEPT !.complete_field_definitions =
                   [i \in DOMAIN data |-> FieldDefinition(data[i])]]

\* As VisibleCopies, leaving out the definitions of a hidden category as well.
RECURSIVE VisibleCopiesOfVisibleCategories(_, _)
VisibleCopiesOfVisibleCategories(defs, sm) ==
    IF defs = << >> THEN << >>
    ELSE IF /\ IsFieldVisible(sm.filter_settings, Head(defs).index)
            /\ IsCategoryVisible(sm.filter_settings, Head(defs).category)
         THEN <<Head(defs)>> \o VisibleCopiesOfVisibleCategories(Tail(defs), sm)
         ELSE VisibleCopiesOfVisibleCategories(Tail(defs), sm)

\* FieldManager._update_filtered_definitions: the visible definitions of the
\* complete list, copied in the order of the complete list.
RECURSIVE VisibleCopies(_, _)
VisibleCopies(defs, sm) ==
    IF defs = << >> THEN << >>
    ELSE IF IsFieldVisible(sm.filter_settings, Head(defs).index)
         THEN <<Head(defs)>> \o VisibleCopies(Tail(defs), sm)
         ELSE VisibleCopies(Tail(defs), sm)

\* As UpdateFilteredDefinitions, with each visible copy inserted at the front.
UpdateFilteredDefinitionsPrepending(fm, sm) ==
    LET visible == VisibleCopies(fm.complete_field_definitions, sm)
    IN [fm EXCEPT !.filtered_field_definitions =
                      [i \in DOMAIN visible |-> visible[Len(visible) + 1 - i]]]

UpdateFilteredDefinitions(fm, sm) ==
    [fm EXCEPT !.filtered_field_definitions =
                   VisibleCopies(fm.complete_field_definitions, sm)]

\* FieldManager._load_translations
LoadTranslations(fm, sm) ==
    LET table == IF fm.current_language \in DOMAIN LanguageFiles
                 THEN LanguageFiles[fm.current_language]
                 ELSE EmptyDict
        translated ==
            [i \in DOMAIN fm.complete_field_definitions |->
                [fm.complete_field_definitions[i] EXCEPT
                    !.translated_name =
                        Get(table, fm.complete_field_definitions[i].index,
                            fm.complete_field_definitions[i].index)]]
    IN UpdateFilteredDefinitions(
           [fm EXCEPT !.translations = table,
                      !.complete_field_definitions = translated], sm)

\* As UpdateLanguage, with the translations loaded before the language of
\* the settings is taken over.
UpdateLanguageAfterLoading(fm, sm) ==
    [LoadTranslations(fm, sm) EXCEPT !.current_language = sm.language]

\* FieldManager._update_language
UpdateLanguage(fm, sm) ==
    LoadTranslations([fm EXCEPT !.current_language = sm.language], sm)

\* As SortKey, with a category outside CATEGORY_ORDER given the index -1.
SortKeyUnknownFirst(field_def) ==
    << IF field_def.category \in Range(CATEGORY_ORDER)
       THEN IndexOf(CATEGORY_ORDER, field_def.category)
       ELSE 0 - 1,
       field_def.priority,
       IndexOf(IndexOrder, field_def.index) >>

\* sort_key of FieldManager._sort_fields
SortKey(field_def) ==
    << IF field_def.category \in Range(CATEGORY_ORDER)
       THEN IndexOf(CATEGORY_ORDER, field_def.category)
       ELSE Len(CATEGORY_ORDER),
       field_def.priority,
       IndexOf(IndexOrder, field_def.index) >>

\* list.sort(key=sort_key): a stable ascending sort, here by insertion.
RECURSIVE InsertByKey(_, _)
InsertByKey(sorted, field_def) ==
    IF sorted = << >> THEN <<field_def>>
    ELSE IF TupleLess(SortKey(field_def), SortKey(Head(sorted)))
         THEN <<field_def>> \o sorted
         ELSE <<Head(sorted)>> \o InsertByKey(Tail(sorted), field_def)

RECURSIVE SortedByKey(_)
SortedByKey(defs) ==
    IF defs = << >> THEN << >>
    ELSE InsertByKey(SortedByKey(SubSeq(defs, 1, Len(defs) - 1)), defs[Len(defs)])

\* FieldManager._sort_fields
SortFields(fm) ==
    [fm EXCEPT !.complete_field_definitions = SortedByKey(@)]

\* FieldManager._build_category_map
RECURSIVE IndicesOfCategory(_, _)
IndicesOfCategory(defs, category) ==
    IF defs = << >> THEN << >>
    ELSE IF Head(defs).category = category
         THEN <<Head(defs).index>> \o IndicesOfCategory(Tail(defs), category)
         ELSE IndicesOfCategory(Tail(defs), category)

BuildCategoryMap(fm) ==
    [fm EXCEPT !.category_fields =
        [c \in {d.category : d \in Range(fm.complete_field_definitions)} |->
            IndicesOfCategory(fm.complete_field_definitions, c)]]

\* The list of dicts get_field_structure and get_complete_field_structure build.
FieldStructure(defs) ==
    [i \in DOMAIN defs |->
        [ name |-> defs[i].translated_name, index |-> defs[i].index,
          tag |-> defs[i].tag, category |-> defs[i].category,
          priority |-> defs[i].priority, interpret_mode |-> defs[i].interpret_mode ]]

\* FieldManager.check_and_update_filters.  previous_filter_settings is << >>
\* while the attribute does not exist and <<snapshot>> once it does; a missing
\* attribute is first set to {}, which no snapshot equals.
CheckAndUpdateFiltersOf(fm, sm) ==
    LET current_filter_settings == FilterToDict(sm.filter_settings)
        changed == IF fm.previous_filter_settings = << >> THEN TRUE
                   ELSE current_filter_settings # fm.previous_filter_settings[1]
    IN IF changed
       THEN UpdateFilteredDefinitions(
                [fm EXCEPT !.previous_filter_settings = <<current_filter_settings>>], sm)
       ELSE fm

\* FieldManager.get_complete_field_structure: the manager after the call.
AfterGetCompleteFieldStructure(fm, sm) == UpdateLanguage(fm, sm)

\* FieldManager.get_field_structure: the manager after the call.
AfterGetFieldStructure(fm, sm) ==
    LET fm1 == IF sm.language # fm.current_language THEN UpdateLanguage(fm, sm) ELSE fm
    IN IF fm1.filter_initialized THEN CheckAndUpdateFiltersOf(fm1, sm) ELSE fm1

\* FieldManager.get_field_definitions: the manager after the call.
AfterGetFieldDefinitions(fm, sm) ==
    IF fm.filter_initialized THEN CheckAndUpdateFiltersOf(fm, sm) ELSE fm

\* The dict FieldManager.get_categories_with_fields builds.
CategoriesWithFields(fm) ==
    [c \in Range(CATEGORY_ORDER) \cap DOMAIN fm.category_fields |->
        [ name |-> Get(fm.translations, "CATEGORY_" \o c, c),
          fields |->
            [i \in DOMAIN fm.category_fields[c] |->
                LET field_def ==
                        CHOOSE d \in Range(fm.complete_field_definitions) :
                            d.index = fm.category_fields[c][i]
                IN [index |-> fm.category_fields[c][i],
                    name |-> field_def.translated_name]] ]]

\* FieldManager.__init__, with the SettingsManager the first
\* get_settings_manager() call inside it creates.  Yields both managers.
ConstructManagers(data, settings_file) ==
    LET sm0 == NewSettingsManager(settings_file)
        fm0 == [NoFieldManager EXCEPT !.exists = TRUE]
        fm1 == LoadFieldDefinitions(fm0, data)
        fm2 == UpdateLanguage(fm1, sm0)
        fm3 == SortFields(fm2)
        fm4 == BuildCategoryMap(fm3)
        fm5 == AfterGetCompleteFieldStructure(fm4, sm0)
        complete_structure == FieldStructure(fm5.complete_field_definitions)
        sm1 == InitializeFilterSettings(sm0, complete_structure)
        fm6 == UpdateFilteredDefinitions(fm5, sm1)
    IN [fm |-> [fm6 EXCEPT !.filter_initialized = TRUE], sm |-> sm1]

\* What a call that returns nothing leaves in "returned".
NoReturn == [op |-> "none", value |-> << >>]

(***************************************************************************)
(* The catalog as a state machine: one action per public operation of      *)
(* FieldManager and per visibility or language change of the settings.     *)
(***************************************************************************)

\* No field interpreter has been called.
InterpreterIdle ==
    /\ interpreter = "none"
    /\ raw_value = << >>
    /\ interpreted = << >>

\* No request is in progress.
RequestsIdle ==
    /\ requests = << >>
    /\ in_force = {}

TimingIdle ==
    /\ timing_info = << >>
    /\ acquisition_order = << >>
    /\ last_timing_range = << >>
    /\ pattern_info = EmptyDict
    /\ timing_context = EmptyDict
    /\ timing_result = EmptyDict
    /\ pc = "idle"

Init ==
    /\ settings_manager = NoSettingsManager
    /\ field_manager = NoFieldManager
    /\ returned = NoReturn
    /\ TimingIdle
    /\ InterpreterIdle
    /\ RequestsIdle

\* get_field_manager(), first call: FieldManager() is constructed.
Construct ==
    /\ ~field_manager.exists
    /\ \E data \in FieldMetadataFiles, settings_file \in SettingsFiles :
          LET made == ConstructManagers(data, settings_file)
          IN /\ field_manager' = made.fm
             /\ settings_manager' = made.sm
    /\ returned' = NoReturn
    /\ UNCHANGED <<timing_vars, interpreter_vars, request_vars>>

\* FieldManager.set_language(language)
SetLanguage ==
    /\ field_manager.exists
    /\ \E language \in Languages :
          LET sm1 == SetLanguageProperty(settings_manager, language)
          IN /\ settings_manager' = sm1
             /\ field_manager' = UpdateLanguage(field_manager, sm1)
    /\ returned' = NoReturn
    /\ UNCHANGED <<timing_vars, interpreter_vars, request_vars>>

\* FieldManager.get_field_structure()
GetFieldStructure ==
    /\ field_manager.exists
    /\ field_manager' = AfterGetFieldStructure(field_manager, settings_manager)
    /\ returned' = [op |-> "get_field_structure",
                    value |-> FieldStructure(field_manager'.filtered_field_definitions)]
    /\ UNCHANGED <<settings_manager, timing_vars, interpreter_vars, request_vars>>

\* FieldManager.get_complete_field_structure()
GetCompleteFieldStructure ==
    /\ field_manager.exists
    /\ field_manager' = AfterGetCompleteFieldStructure(field_manager, settings_manager)
    /\ returned' = [op |-> "get_complete_field_structure",
                    value |-> FieldStructure(field_manager'.complete_field_definitions)]
    /\ UNCHANGED <<settings_manager, timing_vars, interpreter_vars, request_vars>>

\* FieldManager.get_field_definitions()
GetFieldDefinitions ==
    /\ field_manager.exists
    /\ field_manager' = AfterGetFieldDefinitions(field_manager, settings_manager)
    /\ returned' = [op |-> "get_field_definitions",
                    value |-> field_manager'.filtered_field_definitions]
    /\ UNCHANGED <<settings_manager, timing_vars, interpreter_vars, request_vars>>

\* FieldManager.get_categories_with_fields()
GetCategoriesWithFields ==
    /\ field_manager.exists
    /\ field_manager' = UpdateLanguage(field_manager, settings_manager)
    /\ returned' = [op |-> "get_categories_with_fields",
                    value |-> CategoriesWithFields(field_manager')]
    /\ UNCHANGED <<settings_manager, timing_vars, interpreter_vars, request_vars>>

\* FieldManager.check_and_update_filters()
CheckAndUpdateFilters ==
    /\ field_manager.exists
    /\ field_manager' = CheckAndUpdateFiltersOf(field_manager, settings_manager)
    /\ returned' = [op |-> "check_and_update_filters",
                    value |-> field_manager' # field_manager]
    /\ UNCHANGED <<settings_manager, timing_vars, interpreter_vars, request_vars>>

\* FieldManager.notify_filter_update()
NotifyFilterUpdate ==
    /\ field_manager.exists
    /\ field_manager' = UpdateFilteredDefinitions(field_manager, settings_manager)
    /\ returned' = NoReturn
    /\ UNCHANGED <<settings_manager, timing_vars, interpreter_vars, request_vars>>

\* SettingsManager.update_filter_settings(categories, fields)
UpdateFilterSettings ==
    /\ settings_manager.exists
    /\ \E categories \in VisibilityMaps(FilterCategoryKeys),
          fields \in VisibilityMaps(FilterFieldKeys) :
          settings_manager' = UpdateFilterSettingsOf(settings_manager, categories, fields)
    /\ returned' = NoReturn
    /\ UNCHANGED <<field_manager, timing_vars, interpreter_vars, request_vars>>

\* SettingsManager.reset_filters()
ResetFilters ==
    /\ settings_manager.exists
    /\ settings_manager' = ResetFiltersOf(settings_manager)
    /\ returned' = NoReturn
    /\ UNCHANGED <<field_manager, timing_vars, interpreter_vars, request_vars>>

\* settings_manager.filter_settings.set_field_visibility(field_index, visible)
SetFieldVisibility ==
    /\ settings_manager.exists
    /\ \E field_index \in FilterFieldKeys, visible \in BOOLEAN :
          settings_manager' = SetFieldVisibilityOf(settings_manager, field_index, visible)
    /\ returned' = NoReturn
    /\ UNCHANGED <<field_manager, timing_vars, interpreter_vars, request_vars>>

\* settings_manager.filter_settings.set_category_visibility(category, visible)
SetCategoryVisibility ==
    /\ settings_manager.exists
    /\ \E category \in FilterCategoryKeys, visible \in BOOLEAN :
          settings_manager' = SetCategoryVisibilityOf(settings_manager, category, visible)
    /\ returned' = NoReturn
    /\ UNCHANGED <<field_manager, timing_vars, interpreter_vars, request_vars>>

\* settings_manager.language = lang, as the /api/language/<lang> route does.
SetSettingsLanguage ==
    /\ settings_manager.exists
    /\ \E lang \in Languages :
          settings_manager' = SetLanguageProperty(settings_manager, lang)
    /\ returned' = NoReturn
    /\ UNCHANGED <<field_manager, timing_vars, interpreter_vars, request_vars>>

Next ==
    \/ Construct
    \/ SetLanguage
    \/ GetFieldStructure
    \/ GetCompleteFieldStructure
    \/ GetFieldDefinitions
    \/ GetCategoriesWithFields
    \/ CheckAndUpdateFilters
    \/ NotifyFilterUpdate
    \/ UpdateFilterSettings
    \/ ResetFilters
    \/ SetFieldVisibility
    \/ SetCategoryVisibility
    \/ SetSettingsLanguage

Spec == Init /\ [][Next]_vars

(***************************************************************************)
(* Raw tag values, as the dataset decoder hands them over.                 *)
(***************************************************************************)

None == [kind |-> "None"]
Num(x) == [kind |-> "num", val |-> x]
Str(chars) == [kind |-> "str", val |-> chars]
List(items) == [kind |-> "list", val |-> items]
Tuple(items) == [kind |-> "tuple", val |-> items]
\* A float that is no finite number, by the text str() shows of it.
Float(name) == [kind |-> "float", val |-> name]
NaN == Float(<<"n", "a", "n">>)
Infinity == Float(<<"i", "n", "f">>)
NegInfinity == Float(<<"-", "i", "n", "f">>)

\* bool(value): None, 0, "" and [] are false.
Truthy(value) ==
    CASE value.kind = "None" -> FALSE
      [] value.kind = "num" -> value.val # 0
      [] value.kind = "str" -> value.val # << >>
      [] value.kind = "list" -> value.val # << >>
      [] value.kind = "tuple" -> value.val # << >>
      [] value.kind = "float" -> TRUE

\* float(t) on an element of a timing array succeeds on numbers only; the
\* strings the timing arrays of the model hold are not numerals.
IsFloatable(value) == value.kind = "num"

Min2(a, b) == IF a <= b THEN a ELSE b

\* min(list) and max(list) of a non-empty list of numbers.
MinOf(s) == CHOOSE x \in Range(s) : \A y \in Range(s) : x <= y
MaxOf(s) == CHOOSE x \in Range(s) : \A y \in Range(s) : x >= y

\* all(p(x) for x in s) is written \A i \in DOMAIN s : p(s[i]).

\* s[:k] for 0 <= k
Prefix(s, k) == SubSeq(s, 1, Min2(k, Len(s)))

(***************************************************************************)
(* interpreters/slice_timing_interpreter.py: order extraction              *)
(***************************************************************************)

\* As InsertByTiming, with a pair placed before the pairs of equal timing.
RECURSIVE InsertByTimingUnstable(_, _)
InsertByTimingUnstable(sorted, pair) ==
    IF sorted = << >> THEN <<pair>>
    ELSE IF pair[1] <= Head(sorted)[1]
         THEN <<pair>> \o sorted
         ELSE <<Head(sorted)>> \o InsertByTimingUnstable(Tail(sorted), pair)

\* sorted(pairs, key=lambda x: x[0]): a stable ascending sort of
\* (timing, index) pairs by timing, here by insertion after the last pair
\* whose timing is not greater.
RECURSIVE InsertByTiming(_, _)
InsertByTiming(sorted, pair) ==
    IF sorted = << >> THEN <<pair>>
    ELSE IF pair[1] < Head(sorted)[1]
         THEN <<pair>> \o sorted
         ELSE <<Head(sorted)>> \o InsertByTiming(Tail(sorted), pair)

RECURSIVE SortedByTiming(_)
SortedByTiming(pairs) ==
    IF pairs = << >> THEN << >>
    ELSE InsertByTiming(SortedByTiming(SubSeq(pairs, 1, Len(pairs) - 1)),
                        pairs[Len(pairs)])

\* As ExtractAcquisitionOrder, with the positions counted from 0.
ExtractAcquisitionOrderZeroBased(info, range_before) ==
    LET raw_array == IF info.kind = "list" THEN info.val ELSE <<info>>
        failed == \/ \E i \in DOMAIN raw_array : ~IsFloatable(raw_array[i])
                  \/ raw_array = << >>
        timing_array == [i \in DOMAIN raw_array |-> raw_array[i].val]
        timing_with_index == [i \in DOMAIN timing_array |-> <<timing_array[i], i - 1>>]
        sorted_by_timing == SortedByTiming(timing_with_index)
        order == [i \in DOMAIN sorted_by_timing |-> sorted_by_timing[i][2]]
    IN IF failed
       THEN [order |-> << >>, range |-> range_before]
       ELSE [order |-> order,
             range |-> <<MinOf(timing_array), MaxOf(timing_array)>>]

\* As ExtractAcquisitionOrder, leaving out the elements that are no numbers
\* instead of failing on them.
ExtractAcquisitionOrderSkippingBad(info, range_before) ==
    LET raw_array == IF info.kind = "list" THEN info.val ELSE <<info>>
        kept == SelectSeq(raw_array, IsFloatable)
        timing_array == [i \in DOMAIN kept |-> kept[i].val]
        timing_with_index == [i \in DOMAIN timing_array |-> <<timing_array[i], i>>]
        sorted_by_timing == SortedByTiming(timing_with_index)
        order == [i \in DOMAIN sorted_by_timing |-> sorted_by_timing[i][2]]
    IN IF kept = << >>
       THEN [order |-> << >>, range |-> range_before]
       ELSE [order |-> order,
             range |-> <<MinOf(timing_array), MaxOf(timing_array)>>]

\* _extract_acquisition_order.  Yields the returned order (<< >> stands for
\* None: the code never returns an empty list) and the value of the global
\* _last_timing_range after the call, given its value before.
ExtractAcquisitionOrder(info, range_before) ==
    LET raw_array == IF info.kind = "list" THEN info.val ELSE <<info>>
        failed == \/ \E i \in DOMAIN raw_array : ~IsFloatable(raw_array[i])
                  \/ raw_array = << >>
        timing_array == [i \in DOMAIN raw_array |-> raw_array[i].val]
        timing_with_index == [i \in DOMAIN timing_array |-> <<timing_array[i], i>>]
        sorted_by_timing == SortedByTiming(timing_with_index)
        order == [i \in DOMAIN sorted_by_timing |-> sorted_by_timing[i][2]]
    IN IF failed
       THEN [order |-> << >>, range |-> range_before]
       ELSE [order |-> order,
             range |-> <<MinOf(timing_array), MaxOf(timing_array)>>]

(***************************************************************************)
(* interpreters/slice_timing_interpreter.py: pattern classification        *)
(***************************************************************************)

Abs(x) == IF x < 0 THEN -x ELSE x

\* As IsCenterOutPattern, with a distance of n // 4 accepted as well.
IsCenterOutPatternInclusive(order) ==
    LET n == Len(order)
        center == n \div 2
        first_few == Prefix(order, Min2(4, n \div 4))
    IN \A i \in DOMAIN first_few : Abs(first_few[i] - center) <= n \div 4

\* _is_center_out_pattern
IsCenterOutPattern(order) ==
    LET n == Len(order)
        center == n \div 2
        first_few == Prefix(order, Min2(4, n \div 4))
    IN \A i \in DOMAIN first_few : Abs(first_few[i] - center) < n \div 4

\* _is_out_center_pattern
IsOutCenterPattern(order) ==
    LET n == Len(order)
        first_few == Prefix(order, Min2(4, n \div 4))
    IN \A i \in DOMAIN first_few : first_few[i] <= 2 \/ first_few[i] >= n - 1

\* _is_multiband_pattern
IsMultibandPattern(order) ==
    LET n == Len(order)
        gaps == [i \in 1..Min2(4, Len(order) - 1) |-> order[i + 1] - order[i]]
    IN IF n >= 8
       THEN Cardinality(Range(gaps)) = 1 /\ gaps[1] > 1
       ELSE FALSE

\* The four parity tests of _analyze_acquisition_pattern.
AllOdd(s) == \A i \in DOMAIN s : s[i] % 2 = 1
AllEven(s) == \A i \in DOMAIN s : s[i] % 2 = 0

\* As Descending, for range(n - 1, -1, -1).
DescendingFromBelow(n) == [i \in 1..n |-> n - i]

\* list(range(1, n + 1))
Ascending(n) == [i \in 1..n |-> i]

\* list(range(n, 0, -1))
Descending(n) == [i \in 1..n |-> n + 1 - i]

\* As PatternName, with the sequential orders tested before the interleaved ones.
PatternNameSequentialFirst(order) ==
    LET n == Len(order)
        first_half == SubSeq(order, 1, n \div 2)
        second_half == SubSeq(order, n \div 2 + 1, n)
    IN IF order = Ascending(n)
       THEN "Sequential (Ascending)"
       ELSE IF order = Descending(n)
       THEN "Sequential (Descending)"
       ELSE IF AllOdd(first_half) /\ AllEven(second_half)
       THEN "Interleaved (Odd-Even)"
       ELSE IF AllEven(first_half) /\ AllOdd(second_half)
       THEN "Interleaved (Even-Odd)"
       ELSE IF IsCenterOutPattern(order)
       THEN "Center-Out"
       ELSE IF IsOutCenterPattern(order)
       THEN "Out-Center"
       ELSE IF IsMultibandPattern(order)
       THEN "Multi-band/SMS"
       ELSE "Custom/Non-standard"

\* The pattern name _analyze_acquisition_pattern assigns.
PatternName(order) ==
    LET n == Len(order)
        first_half == SubSeq(order, 1, n \div 2)
        second_half == SubSeq(order, n \div 2 + 1, n)
    IN IF AllOdd(first_half) /\ AllEven(second_half)
       THEN "Interleaved (Odd-Even)"
       ELSE IF AllEven(first_half) /\ AllOdd(second_half)
       THEN "Interleaved (Even-Odd)"
       ELSE IF order = Ascending(n)
       THEN "Sequential (Ascending)"
       ELSE IF order = Descending(n)
       THEN "Sequential (Descending)"
       ELSE IF IsCenterOutPattern(order)
       THEN "Center-Out"
       ELSE IF IsOutCenterPattern(order)
       THEN "Out-Center"
       ELSE IF IsMultibandPattern(order)
       THEN "Multi-band/SMS"
       ELSE "Custom/Non-standard"

\* The "details" text that goes with a pattern name.
PatternDetails(name, order) ==
    CASE name = "Interleaved (Odd-Even)" ->
             <<"Odd slices first (1,3,5...), then even slices (2,4,6...)">>
      [] name = "Interleaved (Even-Odd)" ->
             <<"Even slices first (2,4,6...), then odd slices (1,3,5...)">>
      [] name = "Sequential (Ascending)" ->
             <<"Slices acquired in ascending order (1->N)">>
      [] name = "Sequential (Descending)" ->
             <<"Slices acquired in descending order (N->1)">>
      [] name = "Center-Out" ->
             <<"Acquisition from center slices to edge slices">>
      [] name = "Out-Center" ->
             <<"Acquisition from edge slices to center slices">>
      [] name = "Multi-band/SMS" ->
             <<"Simultaneous multi-slice acquisition detected">>
      [] OTHER ->
             <<"Non-standard pattern. First few: ", Prefix(order, 5), "...">>

\* _analyze_acquisition_pattern.  The global _last_timing_range always
\* exists (the module sets it to None when loaded), so "timing_range" and
\* "is_multiband" are always entries of the result.
AnalyzeAcquisitionPattern(order, range) ==
    LET name == PatternName(order)
    IN [ pattern_name |-> name,
         details |-> PatternDetails(name, order),
         timing_range |-> range,
         is_multiband |-> (name = "Multi-band/SMS") ]

(***************************************************************************)
(* The timing arrays a request may carry, and the analysis of one request  *)
(* as a state machine: extraction, then classification.                    *)
(***************************************************************************)

MaxTime == 2        \* timestamps of the arrays with repeated values: 0..MaxTime
MaxArrayLen == 4    \* longest array with repeated values
MaxPermLen == 6     \* longest array enumerated with every order of distinct values
MaxSlices == 16     \* longest strided array
MaxStride == 4      \* largest stride of a strided array

\* A list of numbers as a raw value.
NumList(values) == List([i \in DOMAIN values |-> Num(values[i])])

\* Every array over 0..MaxTime, the empty one included.
RepeatedValueArrays ==
    UNION {{NumList(a) : a \in [1..n -> 0..MaxTime]} : n \in 0..MaxArrayLen}

\* Every array of n distinct timestamps 1..n, in every arrangement.
DistinctValueArrays ==
    UNION {{NumList(a) : a \in Permutations(1..n)} : n \in 1..MaxPermLen}

\* Slice i of n is acquired after every slice of a smaller residue class
\* modulo k and after the smaller slices of its own class: k = 1 is the
\* plain ascending acquisition, k = 2 acquires odd slices then even slices.
StridedTiming(n, k) ==
    [i \in 1..n |->
        Cardinality({j \in 1..n :
            \/ (j - 1) % k < (i - 1) % k
            \/ (j - 1) % k = (i - 1) % k /\ j <= i})]

\* The same acquisitions in the opposite temporal order.
ReversedTiming(timing) == [i \in DOMAIN timing |-> Len(timing) + 1 - timing[i]]

StridedArrays ==
    UNION {{NumList(StridedTiming(n, k)), NumList(ReversedTiming(StridedTiming(n, k)))}
           : n \in 1..MaxSlices, k \in 1..MaxStride}

\* Slice s of n is acquired first, then the slices after it in ascending
\* order, then slices 1..s-1.
RotatedTiming(n, s) == [i \in 1..n |-> ((i - s + n) % n) + 1]

RotatedArrays == UNION {{NumList(RotatedTiming(n, s)) : s \in 1..n} : n \in 1..MaxSlices}

\* Values the extraction cannot turn into numbers, and a lone number.
OddArrays ==
    { List(<<Num(0), Str(<<"n", "/", "a">>)>>), List(<<None, Num(1)>>),
      Str(<<"x">>), Num(5) }

TimingInputs ==
    RepeatedValueArrays \cup DistinctValueArrays \cup StridedArrays \cup RotatedArrays
        \cup OddArrays \cup {NumList(<<400, 0, 800, 200, 600>>)}

\* _last_timing_range when a request starts: None after the module is
\* loaded, or the range an earlier request left behind.
PriorRanges == {<< >>, <<0, 800>>}

NoManagers ==
    /\ settings_manager = NoSettingsManager
    /\ field_manager = NoFieldManager
    /\ returned = NoReturn

InitTiming ==
    /\ NoManagers
    /\ InterpreterIdle
    /\ RequestsIdle
    /\ timing_info \in TimingInputs
    /\ acquisition_order = << >>
    /\ last_timing_range \in PriorRanges
    /\ pattern_info = EmptyDict
    /\ timing_context = EmptyDict
    /\ timing_result = EmptyDict
    /\ pc = "start"

\* acquisition_order = _extract_acquisition_order(timing_info)
ExtractOrder ==
    /\ pc = "start"
    /\ LET got == ExtractAcquisitionOrder(timing_info, last_timing_range)
       IN /\ acquisition_order' = got.order
          /\ last_timing_range' = got.range
    /\ pc' = "extracted"
    /\ UNCHANGED <<catalog_vars, interpreter_vars, request_vars, timing_info, pattern_info, timing_context, timing_result>>

\* pattern_info = _analyze_acquisition_pattern(acquisition_order), reached
\* only with an order that is not None.
AnalyzePattern ==
    /\ pc = "extracted"
    /\ acquisition_order # << >>
    /\ pattern_info' = AnalyzeAcquisitionPattern(acquisition_order, last_timing_range)
    /\ pc' = "analyzed"
    /\ UNCHANGED <<catalog_vars, interpreter_vars, request_vars, timing_info, acquisition_order, last_timing_range,
                   timing_context, timing_result>>

NextTiming == ExtractOrder \/ AnalyzePattern

SpecTiming == InitTiming /\ [][NextTiming]_vars

(***************************************************************************)
(* Text: str(), str.upper(), the "in" test on strings, number formatting.  *)
(* A text that is searched or built is a sequence of one-character         *)
(* strings.                                                                *)
(***************************************************************************)

LowerLetters == << "a", "b", "c", "d", "e", "f", "g", "h", "i", "j", "k", "l", "m",
                   "n", "o", "p", "q", "r", "s", "t", "u", "v", "w", "x", "y", "z" >>
UpperLetters == << "A", "B", "C", "D", "E", "F", "G", "H", "I", "J", "K", "L", "M",
                   "N", "O", "P", "Q", "R", "S", "T", "U", "V", "W", "X", "Y", "Z" >>
DigitChars == << "0", "1", "2", "3", "4", "5", "6", "7", "8", "9" >>

\* str.upper() on one character.
UpperChar(c) ==
    IF c \in Range(LowerLetters)
    THEN UpperLetters[CHOOSE i \in DOMAIN LowerLetters : LowerLetters[i] = c]
    ELSE c

\* str.upper()
Upper(chars) == [i \in DOMAIN chars |-> UpperChar(chars[i])]

\* word in chars
Contains(word, chars) ==
    \E i \in 1..(Len(chars) - Len(word) + 1) :
        SubSeq(chars, i, i + Len(word) - 1) = word

\* str(n) of an integer n >= 0
RECURSIVE DecimalString(_)
DecimalString(n) ==
    IF n < 10 THEN <<DigitChars[n + 1]>>
    ELSE DecimalString(n \div 10) \o <<DigitChars[(n % 10) + 1]>>

\* str(list) of a list of integers: "[2, 4, 1]"
RECURSIVE JoinedIntegers(_)
JoinedIntegers(list) ==
    IF list = << >> THEN << >>
    ELSE IF Len(list) = 1 THEN DecimalString(list[1])
    ELSE DecimalString(list[1]) \o <<",", " ">> \o JoinedIntegers(Tail(list))

IntListString(list) == <<"[">> \o JoinedIntegers(list) \o <<"]">>

\* str(n) of an integer n
SignedDecimal(n) == IF n < 0 THEN <<"-">> \o DecimalString(0 - n) ELSE DecimalString(n)

\* Characters outside ASCII, each standing for one character of a text.
EnDash == "U+2013"
TimesSign == "U+00D7"

\* str.isdigit() on a text of the model's characters
IsDigits(chars) == chars # << >> /\ \A i \in DOMAIN chars : chars[i] \in Range(DigitChars)

\* The natural number a text of digits denotes.
RECURSIVE ParseNatural(_)
ParseNatural(chars) ==
    IF chars = << >> THEN 0
    ELSE 10 * ParseNatural(SubSeq(chars, 1, Len(chars) - 1))
         + (CHOOSE d \in 0..9 : DigitChars[d + 1] = chars[Len(chars)])

\* The integer a text of digits with an optional sign denotes.
ParseInteger(chars) ==
    IF chars # << >> /\ chars[1] = "-" THEN 0 - ParseNatural(Tail(chars))
    ELSE ParseNatural(chars)

\* repr(value): what str() shows of an element of a list or tuple.
RECURSIVE ReprOf(_), JoinedReprs(_)
ReprOf(value) ==
    CASE value.kind = "None" -> <<"N", "o", "n", "e">>
      [] value.kind = "num" -> SignedDecimal(value.val)
      [] value.kind = "float" -> value.val
      [] value.kind = "str" -> <<"'">> \o value.val \o <<"'">>
      [] value.kind = "list" -> <<"[">> \o JoinedReprs(value.val) \o <<"]">>
      [] value.kind = "tuple" ->
            <<"(">> \o JoinedReprs(value.val)
                \o (IF Len(value.val) = 1 THEN <<",">> ELSE << >>) \o <<")">>

JoinedReprs(items) ==
    IF items = << >> THEN << >>
    ELSE IF Len(items) = 1 THEN ReprOf(items[1])
    ELSE ReprOf(items[1]) \o <<",", " ">> \o JoinedReprs(Tail(items))

\* str(value) of a raw value.  Numbers of the model are integers.
PyStr(value) == IF value.kind = "str" THEN value.val ELSE ReprOf(value)

\* f"{x:.1f}" of the quotient numer / denom (denom > 0, numer >= 0), rounded
\* to the nearest tenth, an exact half to the even tenth.
Fixed1(numer, denom) ==
    LET twice == (20 * numer) \div denom          \* floor of twice the tenths
        exact_half == (20 * numer) % denom = 0 /\ twice % 2 = 1
        down == twice \div 2
        tenths == IF twice % 2 = 0 THEN down
                  ELSE IF exact_half THEN (IF down % 2 = 0 THEN down ELSE down + 1)
                  ELSE down + 1
    IN DecimalString(tenths \div 10) \o <<".">> \o DecimalString(tenths % 10)

(***************************************************************************)
(* interpreters/slice_timing_interpreter.py: the vendor paths              *)
(***************************************************************************)

\* context.get(key): None when the key is missing.
ContextGet(context, key) == Get(context, key, None)

SIEMENS == <<"S", "I", "E", "M", "E", "N", "S">>
GE == <<"G", "E">>
PHILIPS == <<"P", "H", "I", "L", "I", "P", "S">>
MOSAIC == <<"M", "O", "S", "A", "I", "C">>

\* As FormatOrderPreview, shortening already an order of exactly
\* preview_length elements.
FormatOrderPreviewShortenedEarly(order, preview_length) ==
    IF Len(order) < preview_length
    THEN IntListString(order)
    ELSE IntListString(SubSeq(order, 1, preview_length))
             \o <<".", ".", ".", " ", "(", "t", "o", "t", "a", "l", ":", " ">>
             \o DecimalString(Len(order))
             \o <<" ", "s", "l", "i", "c", "e", "s", ")">>

\* _format_order_preview
FormatOrderPreview(order, preview_length) ==
    IF Len(order) <= preview_length
    THEN IntListString(order)
    ELSE IntListString(SubSeq(order, 1, preview_length))
             \o <<".", ".", ".", " ", "(", "t", "o", "t", "a", "l", ":", " ">>
             \o DecimalString(Len(order))
             \o <<" ", "s", "l", "i", "c", "e", "s", ")">>

\* _interpret_siemens_timing.  Yields the returned dict and the value of
\* _last_timing_range after the call.  With an order that is not None the
\* global holds the range of this call's array, so none of the statements
\* of the try block raises.
InterpretSiemensTiming(context, range_before) ==
    LET timing_info_ == ContextGet(context, "slice_timing_siemens")
        frame_acq_time == ContextGet(context, "frame_acquisition_time")
        got == ExtractAcquisitionOrder(timing_info_, range_before)
        acquisition_order_ == got.order
        pattern_info_ == AnalyzeAcquisitionPattern(acquisition_order_, got.range)
        image_type == Upper(PyStr(Get(context, "image_type", Str(<< >>))))
        is_mosaic == Contains(MOSAIC, image_type)
        tr == ContextGet(context, "tr")
        results ==
            ("Slice Timing Available" :> "Yes")
            @@ ("Slice Timing Source" :> "Siemens MosaicRefAcqTimes (0019,1029)")
            @@ ("Number of Slices" :> DecimalString(Len(acquisition_order_)))
            @@ ("Acquisition Order (first 8)" :> FormatOrderPreview(acquisition_order_, 8))
            @@ ("Acquisition Pattern" :> pattern_info_.pattern_name)
            @@ ("Image Type" :> IF is_mosaic THEN "Mosaic" ELSE "Standard")
            @@ ("Pattern Details" :> pattern_info_.details)
            @@ ("Timing Range (ms)" :>
                    Fixed1(pattern_info_.timing_range[1], 1) \o <<" ", "-", " ">>
                        \o Fixed1(pattern_info_.timing_range[2], 1))
            @@ (IF Truthy(tr) /\ IsFloatable(tr)
                THEN "Estimated Slice Interval (ms)" :>
                         Fixed1(tr.val, Len(acquisition_order_))
                ELSE EmptyDict)
    IN IF timing_info_ = None
       THEN [ range |-> range_before,
              result |->
                IF Truthy(frame_acq_time)
                THEN ("Slice Timing Available" :> "Yes (Frame Acquisition Time)")
                     @@ ("Slice Timing Source" :> "Public tag (0018,9074)")
                     @@ ("Note" :> "Using frame acquisition time instead of MosaicRefAcqTimes")
                ELSE ("Slice Timing Available" :> "No")
                     @@ ("Slice Timing Note" :> "Siemens timing tags not found") ]
       ELSE IF acquisition_order_ = << >>
       THEN [ range |-> got.range,
              result |-> ("Slice Timing Available" :> "Error")
                         @@ ("Slice Timing Error" :> "Failed to parse timing data") ]
       ELSE [ range |-> got.range, result |-> results ]

\* As InterpretGeTiming, testing the truth of each field instead of its
\* presence.
InterpretGeTimingByTruth(context) ==
    LET trigger_time == ContextGet(context, "trigger_time")
        rtia_timer == ContextGet(context, "rtia_timer")
        protocol_block == ContextGet(context, "protocol_data_block")
    IN IF Truthy(trigger_time)
       THEN ("Slice Timing Available" :> "Yes")
            @@ ("Slice Timing Source" :> "GE Trigger Time (0018,1060)")
            @@ ("Trigger Time" :> PyStr(trigger_time))
            @@ ("Note" :> "Slice timing can be calculated from trigger times")
       ELSE IF Truthy(rtia_timer)
       THEN ("Slice Timing Available" :> "Yes")
            @@ ("Slice Timing Source" :> "GE RTIA Timer (0021,105E)")
            @@ ("RTIA Timer" :> PyStr(rtia_timer))
            @@ ("Note" :> "Using RTIA timer for slice timing")
       ELSE IF Truthy(protocol_block)
       THEN ("Slice Timing Available" :> "Partial")
            @@ ("Slice Timing Source" :> "GE Protocol Data Block (0025,101B)")
            @@ ("Note" :> "Only acquisition order available (sequential/interleaved), no precise timing")
            @@ ("Warning" :> "Timing estimation assumes continuous acquisition (TA ~ TR)")
       ELSE ("Slice Timing Available" :> "No")
            @@ ("Slice Timing Note" :> "GE timing information not found in standard tags")

\* _interpret_ge_timing
InterpretGeTiming(context) ==
    LET trigger_time == ContextGet(context, "trigger_time")
        rtia_timer == ContextGet(context, "rtia_timer")
        protocol_block == ContextGet(context, "protocol_data_block")
    IN IF trigger_time # None
       THEN ("Slice Timing Available" :> "Yes")
            @@ ("Slice Timing Source" :> "GE Trigger Time (0018,1060)")
            @@ ("Trigger Time" :> PyStr(trigger_time))
            @@ ("Note" :> "Slice timing can be calculated from trigger times")
       ELSE IF rtia_timer # None
       THEN ("Slice Timing Available" :> "Yes")
            @@ ("Slice Timing Source" :> "GE RTIA Timer (0021,105E)")
            @@ ("RTIA Timer" :> PyStr(rtia_timer))
            @@ ("Note" :> "Using RTIA timer for slice timing")
       ELSE IF protocol_block # None
       THEN ("Slice Timing Available" :> "Partial")
            @@ ("Slice Timing Source" :> "GE Protocol Data Block (0025,101B)")
            @@ ("Note" :> "Only acquisition order available (sequential/interleaved), no precise timing")
            @@ ("Warning" :> "Timing estimation assumes continuous acquisition (TA ~ TR)")
       ELSE ("Slice Timing Available" :> "No")
            @@ ("Slice Timing Note" :> "GE timing information not found in standard tags")

\* As InterpretPhilipsTiming, trying the frame acquisition time before the
\* temporal position.
InterpretPhilipsTimingFrameFirst(context) ==
    LET temporal_pos == ContextGet(context, "temporal_position_identifier")
        frame_time == ContextGet(context, "frame_acquisition_time")
    IN IF frame_time # None
       THEN ("Slice Timing Available" :> "Partial")
            @@ ("Slice Timing Source" :> "Frame Acquisition Time (0018,9074)")
            @@ ("Note" :> "Using frame acquisition time")
       ELSE IF temporal_pos # None
       THEN ("Slice Timing Available" :> "Partial")
            @@ ("Slice Timing Source" :> "Philips Temporal Position (0020,0100)")
            @@ ("Note" :> "Limited timing information available")
       ELSE ("Slice Timing Available" :> "No")
            @@ ("Slice Timing Note" :>
                    "Philips typically does not store slice timing in DICOM headers")
            @@ ("Recommendation" :> "Check scanner console or protocol documentation")

\* _interpret_philips_timing
InterpretPhilipsTiming(context) ==
    LET temporal_pos == ContextGet(context, "temporal_position_identifier")
        frame_time == ContextGet(context, "frame_acquisition_time")
    IN IF temporal_pos # None
       THEN ("Slice Timing Available" :> "Partial")
            @@ ("Slice Timing Source" :> "Philips Temporal Position (0020,0100)")
            @@ ("Note" :> "Limited timing information available")
       ELSE IF frame_time # None
       THEN ("Slice Timing Available" :> "Partial")
            @@ ("Slice Timing Source" :> "Frame Acquisition Time (0018,9074)")
            @@ ("Note" :> "Using frame acquisition time")
       ELSE ("Slice Timing Available" :> "No")
            @@ ("Slice Timing Note" :> "Philips typically does not store slice timing in DICOM headers")
            @@ ("Recommendation" :> "Check scanner console or protocol documentation")

\* As InterpretSliceTiming, with GE tested before Siemens.
InterpretSliceTimingGeFirst(context, range_before) ==
    LET manufacturer == Upper(PyStr(Get(context, "manufacturer", Str(<< >>))))
    IN IF Contains(GE, manufacturer)
       THEN [range |-> range_before, result |-> InterpretGeTiming(context)]
       ELSE IF Contains(SIEMENS, manufacturer)
       THEN InterpretSiemensTiming(context, range_before)
       ELSE IF Contains(PHILIPS, manufacturer)
       THEN [range |-> range_before, result |-> InterpretPhilipsTiming(context)]
       ELSE [range |-> range_before,
             result |-> ("Slice Timing" :> "Unsupported manufacturer")]

\* As InterpretSliceTiming, with the vendor-neutral tags tried for a
\* manufacturer that is not recognised.
InterpretSliceTimingGenericFallback(context, range_before) ==
    LET manufacturer == Upper(PyStr(Get(context, "manufacturer", Str(<< >>))))
    IN IF Contains(SIEMENS, manufacturer)
       THEN InterpretSiemensTiming(context, range_before)
       ELSE IF Contains(GE, manufacturer)
       THEN [range |-> range_before, result |-> InterpretGeTiming(context)]
       ELSE IF Contains(PHILIPS, manufacturer)
            \/ ContextGet(context, "frame_acquisition_time") # None
       THEN [range |-> range_before, result |-> InterpretPhilipsTiming(context)]
       ELSE [range |-> range_before,
             result |-> ("Slice Timing" :> "Unsupported manufacturer")]

\* interpret_slice_timing.  Yields the returned dict and the value of
\* _last_timing_range after the call.
InterpretSliceTiming(context, range_before) ==
    LET manufacturer == Upper(PyStr(Get(context, "manufacturer", Str(<< >>))))
    IN IF Contains(SIEMENS, manufacturer)
       THEN InterpretSiemensTiming(context, range_before)
       ELSE IF Contains(GE, manufacturer)
       THEN [range |-> range_before, result |-> InterpretGeTiming(context)]
       ELSE IF Contains(PHILIPS, manufacturer)
       THEN [range |-> range_before, result |-> InterpretPhilipsTiming(context)]
       ELSE [range |-> range_before,
             result |-> ("Slice Timing" :> "Unsupported manufacturer")]

(***************************************************************************)
(* The contexts a request may carry, and one call of                       *)
(* interpret_slice_timing as a state machine.                              *)
(***************************************************************************)

MaxWords == 2       \* a manufacturer string is made of at most MaxWords words

\* The pieces manufacturer strings are made of.
ManufacturerWords ==
    { <<"S", "i", "e", "m", "e", "n", "s">>,
      <<"G", "E">>, <<"g">>, <<"e">>,
      <<"p", "h", "i", "l", "i", "p", "s">> }

\* A manufacturer none of the vendor paths handles.
Canon == <<"C", "a", "n", "o", "n">>

RECURSIVE WordStrings(_)
WordStrings(k) ==
    IF k = 0 THEN {<< >>}
    ELSE LET shorter == WordStrings(k - 1)
         IN shorter \cup {s \o w : s \in shorter, w \in ManufacturerWords}

\* The manufacturer entry of a context: a string, None, or no entry (ABSENT).
ManufacturerValues == {Str(s) : s \in WordStrings(MaxWords)} \cup {Str(Canon), None}

\* Every context over the values below, with and without a manufacturer entry.
TimingContexts ==
    LET tags ==
            [ slice_timing_siemens :
                  {None, NumList(<<400, 0, 800, 200, 600>>),
                   List(<<Num(0), Str(<<"n", "/", "a">>)>>)},
              frame_acquisition_time : {None, Num(0), Num(3)},
              trigger_time : {None, Num(0), Num(120)},
              rtia_timer : {None, Num(7)},
              protocol_data_block : {None, Str(<<"x">>)},
              temporal_position_identifier : {None, Num(1)},
              image_type : {None, Str(<<"M", "o", "s", "a", "i", "c">>)},
              tr : {None, Num(2000)} ]
    IN {[manufacturer |-> m] @@ t : m \in ManufacturerValues, t \in tags} \cup tags

InitDispatch ==
    /\ NoManagers
    /\ InterpreterIdle
    /\ RequestsIdle
    /\ timing_info = << >>
    /\ acquisition_order = << >>
    /\ last_timing_range = << >>
    /\ pattern_info = EmptyDict
    /\ timing_context \in TimingContexts
    /\ timing_result = EmptyDict
    /\ pc = "request"

\* timing_result = interpret_slice_timing(timing_context)
Interpret ==
    /\ pc = "request"
    /\ LET got == InterpretSliceTiming(timing_context, last_timing_range)
       IN /\ timing_result' = got.result
          /\ last_timing_range' = got.range
    /\ pc' = "done"
    /\ UNCHANGED <<catalog_vars, interpreter_vars, request_vars, timing_info, acquisition_order, pattern_info,
                   timing_context>>

NextDispatch == Interpret

SpecDispatch == InitDispatch /\ [][NextDispatch]_vars

(***************************************************************************)
(* One call of _interpret_siemens_timing as a state machine, over the      *)
(* values the Siemens tags of a context may hold.                          *)
(***************************************************************************)

\* (0019,1029): missing, an array of numbers, or something that is neither.
SiemensTimingValues ==
    {None} \cup RepeatedValueArrays \cup StridedArrays \cup OddArrays
        \cup {NumList(<<400, 0, 800, 200, 600>>)}

\* (0018,9074): missing, zero, a time, or an empty text.
FrameAcquisitionTimeValues == {None, Num(0), Num(3), Str(<< >>)}

\* (0008,0008)
ImageTypeValues ==
    {None, Str(<<"M", "o", "s", "a", "i", "c">>), Str(<<"O", "R", "I", "G">>)}

\* (0018,0080): missing, zero, a repetition time, or a text that is no number.
RepetitionTimeValues == {None, Num(0), Num(2000), Str(<<"n", "/", "a">>)}

\* The contexts of the Siemens path, and the context with no entry at all.
SiemensContexts ==
    [ slice_timing_siemens : SiemensTimingValues,
      frame_acquisition_time : FrameAcquisitionTimeValues,
      image_type : ImageTypeValues,
      tr : RepetitionTimeValues ] \cup {EmptyDict}

InitSiemens ==
    /\ NoManagers
    /\ InterpreterIdle
    /\ RequestsIdle
    /\ timing_info = << >>
    /\ acquisition_order = << >>
    /\ last_timing_range \in PriorRanges
    /\ pattern_info = EmptyDict
    /\ timing_context \in SiemensContexts
    /\ timing_result = EmptyDict
    /\ pc = "siemens"

\* timing_result = _interpret_siemens_timing(timing_context)
InterpretSiemens ==
    /\ pc = "siemens"
    /\ LET got == InterpretSiemensTiming(timing_context, last_timing_range)
       IN /\ timing_result' = got.result
          /\ last_timing_range' = got.range
    /\ pc' = "siemens_done"
    /\ UNCHANGED <<catalog_vars, interpreter_vars, request_vars, timing_info, acquisition_order, pattern_info,
                   timing_context>>

NextSiemens == InterpretSiemens

SpecSiemens == InitSiemens /\ [][NextSiemens]_vars

(***************************************************************************)
(* interpreters/specific_interpreters.py and basic_interpreter.py: the     *)
(* interpreters of single fields.  A call yields the text it returns or    *)
(* the exception it raises.                                                *)
(***************************************************************************)

Returns(chars) == [kind |-> "returned", val |-> chars]
Raises(exception) == [kind |-> "raised", val |-> exception]

\* The placeholder of a missing or unreadable value.
Placeholder == <<EnDash>>

\* float(value): the number, or the failure.  A finite number is held as
\* sign, whole part and hundredths.  A text is a numeral when, stripped of
\* blanks, it is digits with an optional sign and an optional fraction of one
\* or two digits, or one of nan, inf, -inf in any case; the fractions of the
\* model's texts are exact in binary (.5, .25, .75), so that rounding them is
\* rounding the decimal.
FloatOf(value) ==
    CASE value.kind = "num" ->
            [ok |-> TRUE, finite |-> TRUE, negative |-> value.val < 0,
             whole |-> IF value.val < 0 THEN 0 - value.val ELSE value.val,
             hundredths |-> 0]
      [] value.kind = "float" -> [ok |-> TRUE, finite |-> FALSE, val |-> value.val]
      [] value.kind = "str" ->
            LET text == SelectSeq(value.val, LAMBDA c : c # " ")
                negative == text # << >> /\ text[1] = "-"
                unsigned == IF negative THEN Tail(text) ELSE text
                dot == IF \E i \in DOMAIN unsigned : unsigned[i] = "."
                       THEN CHOOSE i \in DOMAIN unsigned : unsigned[i] = "."
                                /\ \A k \in 1..(i - 1) : unsigned[k] # "."
                       ELSE Len(unsigned) + 1
                whole == SubSeq(unsigned, 1, dot - 1)
                fraction == SubSeq(unsigned, dot + 1, Len(unsigned))
                lower == [i \in DOMAIN text |->
                            IF text[i] \in Range(UpperLetters)
                            THEN LowerLetters[CHOOSE k \in DOMAIN UpperLetters :
                                                  UpperLetters[k] = text[i]]
                            ELSE text[i]]
            IN IF /\ IsDigits(whole)
                  /\ \/ dot > Len(unsigned)
                     \/ IsDigits(fraction) /\ Len(fraction) <= 2
               THEN [ok |-> TRUE, finite |-> TRUE, negative |-> negative,
                     whole |-> ParseNatural(whole),
                     hundredths |-> IF fraction = << >> THEN 0
                                    ELSE IF Len(fraction) = 1
                                    THEN 10 * ParseNatural(fraction)
                                    ELSE ParseNatural(fraction)]
               ELSE IF lower \in {NaN.val, Infinity.val, NegInfinity.val}
               THEN [ok |-> TRUE, finite |-> FALSE, val |-> lower]
               ELSE [ok |-> FALSE, error |-> "ValueError"]
      [] OTHER -> [ok |-> FALSE, error |-> "TypeError"]

\* int(num) of a finite float: the fraction is cut off.
IntOf(num) == IF num.negative THEN 0 - num.whole ELSE num.whole

\* f"{num:.{decimals}f}" of a float, for one or two decimals: two decimals
\* are the hundredths; one decimal rounds them, a half to the even tenth.
FixedFormat(num, decimals) ==
    LET sign == IF num.negative THEN <<"-">> ELSE << >>
        cut == num.hundredths \div 10
        tenths == IF num.hundredths % 10 < 5 THEN cut
                  ELSE IF num.hundredths % 10 > 5 THEN cut + 1
                  ELSE IF cut % 2 = 0 THEN cut
                  ELSE cut + 1
    IN IF ~num.finite THEN num.val
       ELSE IF decimals = 2
       THEN sign \o DecimalString(num.whole) \o <<".">>
                \o DecimalString(cut) \o DecimalString(num.hundredths % 10)
       ELSE sign \o DecimalString(num.whole + (tenths \div 10)) \o <<".">>
                \o DecimalString(tenths % 10)

\* specific_interpreters._interpret_numeric: int(nan) raises ValueError,
\* which is caught; int(inf) raises OverflowError, which is not.
InterpretNumeric(value, decimals) ==
    LET num == FloatOf(value)
    IN IF value = None THEN Returns(Placeholder)
       ELSE IF ~num.ok THEN Returns(Placeholder)
       ELSE IF decimals = 0
       THEN (IF num.finite THEN Returns(SignedDecimal(IntOf(num)))
             ELSE IF num.val = NaN.val THEN Returns(Placeholder)
             ELSE Raises("OverflowError"))
       ELSE Returns(FixedFormat(num, decimals))

\* A text t: VALUE_<NAME>, a token the catalog translates.
ValueToken(name) ==
    CASE name = "MALE" -> <<"V", "A", "L", "U", "E", "_", "M", "A", "L", "E">>
      [] name = "FEMALE" -> <<"V", "A", "L", "U", "E", "_", "F", "E", "M", "A", "L", "E">>
      [] name = "OTHER" -> <<"V", "A", "L", "U", "E", "_", "O", "T", "H", "E", "R">>
      [] name = "YEARS" -> <<"V", "A", "L", "U", "E", "_", "Y", "E", "A", "R", "S">>
      [] name = "MONTHS" -> <<"V", "A", "L", "U", "E", "_", "M", "O", "N", "T", "H", "S">>
      [] name = "WEEKS" -> <<"V", "A", "L", "U", "E", "_", "W", "E", "E", "K", "S">>
      [] name = "DAYS" -> <<"V", "A", "L", "U", "E", "_", "D", "A", "Y", "S">>

\* META_SEX
META_SEX(value) ==
    LET key == Upper(PyStr(value))
    IN IF value = None THEN Returns(Placeholder)
       ELSE IF key = <<"M">> THEN Returns(ValueToken("MALE"))
       ELSE IF key = <<"F">> THEN Returns(ValueToken("FEMALE"))
       ELSE IF key = <<"O">> THEN Returns(ValueToken("OTHER"))
       ELSE Returns(PyStr(value))

\* The unit_map of META_AGE
AgeUnitTokens ==
    [unit \in {"Y", "M", "W", "D"} |->
        CASE unit = "Y" -> ValueToken("YEARS")
          [] unit = "M" -> ValueToken("MONTHS")
          [] unit = "W" -> ValueToken("WEEKS")
          [] unit = "D" -> ValueToken("DAYS")]

\* The unit_map of _interpret_age
AgeUnitWords ==
    [unit \in {"Y", "M", "W", "D"} |->
        CASE unit = "Y" -> <<"y", "e", "a", "r", "s">>
          [] unit = "M" -> <<"m", "o", "n", "t", "h", "s">>
          [] unit = "W" -> <<"w", "e", "e", "k", "s">>
          [] unit = "D" -> <<"d", "a", "y", "s">>]

\* The body META_AGE and _interpret_age share, given their unit_map.
AgeText(value, unit_map) ==
    LET age_str == PyStr(value)
        num == SubSeq(age_str, 1, Len(age_str) - 1)
        unit == UpperChar(age_str[Len(age_str)])
    IN IF value = None THEN Returns(Placeholder)
       ELSE IF Len(age_str) >= 4 /\ unit \in DOMAIN unit_map
       THEN Returns(num \o <<" ">> \o unit_map[unit])
       ELSE Returns(age_str)

\* META_AGE
META_AGE(value) == AgeText(value, AgeUnitTokens)

\* basic_interpreter._interpret_age
InterpretAge(value) == AgeText(value, AgeUnitWords)

\* META_MAGNETIC_FIELD_STRENGTH
META_MAGNETIC_FIELD_STRENGTH(value) ==
    LET field == FloatOf(value)
    IN IF value = None \/ ~field.ok THEN Returns(Placeholder)
       ELSE Returns(FixedFormat(field, 1) \o <<" ", "T">>)

\* As DateText, accepting every text of eight characters.
DateTextOfAnyEight(value) ==
    LET date_str == PyStr(value)
    IN IF value = None THEN Returns(Placeholder)
       ELSE IF Len(date_str) = 8
       THEN Returns(SubSeq(date_str, 1, 4) \o <<"-">> \o SubSeq(date_str, 5, 6)
                        \o <<"-">> \o SubSeq(date_str, 7, 8))
       ELSE Returns(date_str)

\* The body META_STUDY_DATE and _interpret_date share.
DateText(value) ==
    LET date_str == PyStr(value)
    IN IF value = None THEN Returns(Placeholder)
       ELSE IF Len(date_str) = 8 /\ IsDigits(date_str)
       THEN Returns(SubSeq(date_str, 1, 4) \o <<"-">> \o SubSeq(date_str, 5, 6)
                        \o <<"-">> \o SubSeq(date_str, 7, 8))
       ELSE Returns(date_str)

\* META_STUDY_DATE
META_STUDY_DATE(value) == DateText(value)

\* basic_interpreter._interpret_date
InterpretDate(value) == DateText(value)

\* str.split(".")[0]: the text before the first "."
BeforeFirstDot(chars) ==
    IF \E i \in DOMAIN chars : chars[i] = "."
    THEN SubSeq(chars, 1, (CHOOSE i \in DOMAIN chars :
                              chars[i] = "." /\ \A j \in 1..(i - 1) : chars[j] # ".") - 1)
    ELSE chars

\* META_STUDY_TIME
META_STUDY_TIME(value) ==
    LET time_str == BeforeFirstDot(PyStr(value))
    IN IF value = None THEN Returns(Placeholder)
       ELSE IF Len(time_str) >= 6 /\ IsDigits(SubSeq(time_str, 1, 6))
       THEN Returns(SubSeq(time_str, 1, 2) \o <<":">> \o SubSeq(time_str, 3, 4)
                        \o <<":">> \o SubSeq(time_str, 5, 6))
       ELSE Returns(PyStr(value))

\* META_SLICE_THICKNESS and META_SLICE_SPACING: the number with its unit,
\* or the placeholder alone.
WithMillimetres(result) ==
    IF result.kind = "returned" /\ result.val # Placeholder
    THEN Returns(result.val \o <<" ", "m", "m">>)
    ELSE result

\* META_ROWS_COLUMNS
META_ROWS_COLUMNS(value) ==
    IF /\ value.kind = "tuple"
       /\ Len(value.val) = 2
       /\ value.val[1] # None
       /\ value.val[2] # None
    THEN Returns(PyStr(value.val[1]) \o <<" ", TimesSign, " ">> \o PyStr(value.val[2]))
    ELSE Returns(Placeholder)

\* META_PIXEL_SPACING
META_PIXEL_SPACING(value) ==
    IF value = None THEN Returns(Placeholder)
    ELSE IF value.kind \in {"list", "tuple"} /\ Len(value.val) >= 2
    THEN LET first == FloatOf(value.val[1])
             second == FloatOf(value.val[2])
         IN IF first.ok /\ second.ok
            THEN Returns(FixedFormat(first, 2) \o <<" ", TimesSign, " ">>
                             \o FixedFormat(second, 2) \o <<" ", "m", "m">>)
            ELSE Returns(Placeholder)
    ELSE Returns(PyStr(value))

\* META_ACQUISITION_MATRIX
META_ACQUISITION_MATRIX(value) ==
    IF value = None THEN Returns(Placeholder)
    ELSE IF value.kind \in {"list", "tuple"} /\ Len(value.val) >= 4
    THEN Returns(PyStr(value.val[1]) \o <<TimesSign>> \o PyStr(value.val[2])
                     \o <<" ", "/", " ">>
                     \o PyStr(value.val[3]) \o <<TimesSign>> \o PyStr(value.val[4]))
    ELSE Returns(PyStr(value))

\* The transfer syntaxes the UID dictionary names, of which the model has one.
ImplicitLittleEndianUid ==
    <<"1", ".", "2", ".", "8", "4", "0", ".", "1", "0", "0", "0", "8", ".", "1", ".", "2">>
ImplicitLittleEndianName ==
    <<"I", "m", "p", "l", "i", "c", "i", "t", " ", "V", "R", " ",
      "L", "i", "t", "t", "l", "e", " ", "E", "n", "d", "i", "a", "n">>

\* META_TRANSFER_SYNTAX_UID: the name of a UID of the dictionary, the text
\* itself for every other value.
META_TRANSFER_SYNTAX_UID(value) ==
    IF value = None THEN Returns(Placeholder)
    ELSE IF PyStr(value) = ImplicitLittleEndianUid THEN Returns(ImplicitLittleEndianName)
    ELSE Returns(PyStr(value))

\* The interpreters of single values, by name.
InterpreterNames ==
    { "META_SEX", "META_AGE", "META_MAGNETIC_FIELD_STRENGTH", "META_STUDY_DATE",
      "META_STUDY_TIME", "META_TR_MS", "META_TE_MS", "META_TI_MS", "META_FLIP_ANGLE",
      "META_ECHO_TRAIN_LENGTH", "META_NUMBER_OF_AVERAGES", "META_PIXEL_BANDWIDTH",
      "META_ROWS_COLUMNS", "META_SLICE_THICKNESS", "META_SLICE_SPACING",
      "META_PIXEL_SPACING", "META_ACQUISITION_MATRIX", "META_BITS_STORED",
      "META_TRANSFER_SYNTAX_UID", "_interpret_age", "_interpret_date" }

\* The call name(value).
ApplyInterpreter(name, value) ==
    CASE name = "META_SEX" -> META_SEX(value)
      [] name = "META_AGE" -> META_AGE(value)
      [] name = "META_MAGNETIC_FIELD_STRENGTH" -> META_MAGNETIC_FIELD_STRENGTH(value)
      [] name = "META_STUDY_DATE" -> META_STUDY_DATE(value)
      [] name = "META_STUDY_TIME" -> META_STUDY_TIME(value)
      [] name \in {"META_TR_MS", "META_TE_MS", "META_TI_MS", "META_FLIP_ANGLE",
                   "META_NUMBER_OF_AVERAGES", "META_PIXEL_BANDWIDTH"} ->
            InterpretNumeric(value, 1)
      [] name \in {"META_ECHO_TRAIN_LENGTH", "META_BITS_STORED"} ->
            InterpretNumeric(value, 0)
      [] name \in {"META_SLICE_THICKNESS", "META_SLICE_SPACING"} ->
            WithMillimetres(InterpretNumeric(value, 2))
      [] name = "META_ROWS_COLUMNS" -> META_ROWS_COLUMNS(value)
      [] name = "META_PIXEL_SPACING" -> META_PIXEL_SPACING(value)
      [] name = "META_ACQUISITION_MATRIX" -> META_ACQUISITION_MATRIX(value)
      [] name = "META_TRANSFER_SYNTAX_UID" -> META_TRANSFER_SYNTAX_UID(value)
      [] name = "_interpret_age" -> InterpretAge(value)
      [] name = "_interpret_date" -> InterpretDate(value)

(***************************************************************************)
(* The raw values a field may hold, and one call of an interpreter as a    *)
(* state machine.                                                          *)
(***************************************************************************)

MaxItems == 4       \* longest list or tuple handed to an interpreter
MaxDigits == 2      \* the texts of digits enumerated have at most MaxDigits digits

\* The texts of exactly k of the digits 0, 1, 3.
DigitTexts(k) == [1..k -> {"0", "1", "3"}]

\* Age codes: one to three digits (or none) followed by a unit letter or
\* another letter, in either case.
AgeCodes ==
    {digits \o <<unit>> :
        digits \in {<<"0", "3", "4">>, <<"0", "1", "2">>, <<"1", "0", "0">>,
                    <<"0", "0", "0">>, <<"0", "0", "7">>, <<"3", "4">>, << >>},
        unit \in {"Y", "M", "W", "D", "y", "X"}}

\* Dates and what resembles them.
DateTexts ==
    { <<"2", "0", "2", "4", "0", "1", "3", "1">>,
      <<"2", "0", "2", "4", "-", "0", "1">>,
      <<"2", "0", "2", "4", "0", "1", "3", "a">>,
      <<"2", "0", "2", "4", "-", "1", "-", "3">>,
      <<"2", "0", "2", "4", "0", "1", "3", "1", "1">>,
      <<"2", "0", "2", "4", "0", "1", "3">>,
      <<"1", "0", "1", "5", "3", "0", ".", "2", "5">> }

\* Texts that are numerals, texts that are not, and the empty text.
OtherTexts ==
    { << >>, <<"a", "b", "c">>, <<"M">>, <<"f">>, <<"-", "3">>, <<" ", "7", " ">>,
      <<"n", "a", "n">>, <<"i", "n", "f">>, <<"-", "I", "n", "f">>,
      <<"1", ".", "5">>, <<"2", ".", "5">>, <<"0", ".", "7", "5">>, <<"1", ".", "2", ".", "3">>,
      ImplicitLittleEndianUid }
        \cup UNION {DigitTexts(k) : k \in 1..MaxDigits}

\* Lists and tuples of every length up to MaxItems, of numbers, and some
\* that hold other values.
Collections ==
    UNION {{List([i \in 1..n |-> Num(63 + i)]), Tuple([i \in 1..n |-> Num(63 + i)])}
           : n \in 0..MaxItems}
        \cup { Tuple(<<None, Num(64)>>), Tuple(<<Num(64), None>>),
               List(<<Str(<<"a">>), Num(1)>>), List(<<NaN, Infinity>>),
               List(<<None, None, None, None>>) }

RawValues ==
    {None, Num(0), Num(34), Num(0 - 3), Num(20240131), NaN, Infinity, NegInfinity}
        \cup {Str(t) : t \in AgeCodes \cup DateTexts \cup OtherTexts}
        \cup Collections

InitInterpreter ==
    /\ NoManagers
    /\ timing_info = << >>
    /\ acquisition_order = << >>
    /\ last_timing_range = << >>
    /\ pattern_info = EmptyDict
    /\ timing_context = EmptyDict
    /\ timing_result = EmptyDict
    /\ pc = "field"
    /\ RequestsIdle
    /\ interpreter \in InterpreterNames
    /\ raw_value \in RawValues
    /\ interpreted = << >>

\* interpreted = interpreter(raw_value)
InterpretField ==
    /\ pc = "field"
    /\ interpreted' = ApplyInterpreter(interpreter, raw_value)
    /\ pc' = "field_done"
    /\ UNCHANGED <<catalog_vars, timing_info, acquisition_order, last_timing_range,
                   pattern_info, timing_context, timing_result, interpreter, raw_value,
                   request_vars>>

NextInterpreter == InterpretField

SpecInterpreter == InitInterpreter /\ [][NextInterpreter]_vars

(***************************************************************************)
(* FieldManager.translate_value, and one call of it as a state machine.    *)
(* The keys and the entries of the translation table are texts, taken      *)
(* apart character by character as the values are.                         *)
(***************************************************************************)

\* The characters str.split() splits at.
IsSpace(c) == c \in {" ", "\t", "\n"}

\* str.split(): the maximal runs of characters that are not whitespace.
RECURSIVE SplitWhitespace(_)
SplitWhitespace(chars) ==
    IF chars = << >> THEN << >>
    ELSE IF IsSpace(chars[1]) THEN SplitWhitespace(Tail(chars))
    ELSE LET end == CHOOSE k \in DOMAIN chars :
                        /\ \A j \in 1..k : ~IsSpace(chars[j])
                        /\ k = Len(chars) \/ IsSpace(chars[k + 1])
         IN <<SubSeq(chars, 1, end)>>
                \o SplitWhitespace(SubSeq(chars, end + 1, Len(chars)))

\* str.startswith(prefix)
StartsWith(chars, prefix) ==
    Len(chars) >= Len(prefix) /\ SubSeq(chars, 1, Len(prefix)) = prefix

ValueMarker == <<"V", "A", "L", "U", "E", "_">>
MessageMarker == <<"M", "S", "G", "_">>

\* ' '.join(parts)
RECURSIVE JoinedWithSpaces(_)
JoinedWithSpaces(parts) ==
    IF parts = << >> THEN << >>
    ELSE IF Len(parts) = 1 THEN parts[1]
    ELSE parts[1] \o <<" ">> \o JoinedWithSpaces(Tail(parts))

\* As TranslateValue, with every part that has an entry replaced by it.
TranslateValueOfEveryPart(translations, value) ==
    IF value.kind = "str"
    THEN LET parts == SplitWhitespace(value.val)
         IN JoinedWithSpaces([i \in DOMAIN parts |-> Get(translations, parts[i], parts[i])])
    ELSE PyStr(value)

\* FieldManager.translate_value
TranslateValue(translations, value) ==
    IF value.kind = "str"
    THEN LET parts == SplitWhitespace(value.val)
             translated_parts ==
                 [i \in DOMAIN parts |->
                     IF StartsWith(parts[i], ValueMarker)
                            \/ StartsWith(parts[i], MessageMarker)
                     THEN Get(translations, parts[i], parts[i])
                     ELSE parts[i]]
         IN JoinedWithSpaces(translated_parts)
    ELSE PyStr(value)

MaxPieces == 4      \* a value handed to translate_value is made of at most MaxPieces pieces

\* The pieces the values are made of: whitespace, marker tokens with and
\* without an entry, and tokens without a marker, one of them with an entry.
ValuePieces ==
    { <<" ">>, <<"\t">>, <<"0", "3", "4">>, <<"M", "S", "G">>,
      <<"V", "A", "L", "U", "E", "_", "Y", "E", "A", "R", "S">>,
      <<"V", "A", "L", "U", "E", "_", "X">>,
      <<"M", "S", "G", "_", "N", "O", "_", "D", "A", "T", "A">>,
      <<"M", "E", "T", "A", "_", "T", "R">>,
      <<"v", "a", "l", "u", "e", "_", "y", "e", "a", "r", "s">> }

RECURSIVE PieceStrings(_)
PieceStrings(k) ==
    IF k = 0 THEN {<< >>}
    ELSE LET shorter == PieceStrings(k - 1)
         IN shorter \cup {s \o w : s \in shorter, w \in ValuePieces}

TranslateInputs == {Str(s) : s \in PieceStrings(MaxPieces)} \cup {None, Num(34)}

\* The tables self.translations may hold: no entry at all, or these.
TranslationTables ==
    { EmptyDict,
      (<<"V", "A", "L", "U", "E", "_", "Y", "E", "A", "R", "S">> :> <<"y", "e", "a", "r", "s">>)
          @@ (<<"M", "S", "G", "_", "N", "O", "_", "D", "A", "T", "A">> :> <<"n", "o", " ", "d", "a", "t", "a">>)
          @@ (<<"M", "E", "T", "A", "_", "T", "R">> :> <<"T", "R">>) }

InitTranslate ==
    /\ settings_manager = NoSettingsManager
    /\ \E table \in TranslationTables :
          field_manager = [NoFieldManager EXCEPT !.exists = TRUE, !.translations = table]
    /\ returned = NoReturn
    /\ timing_info = << >>
    /\ acquisition_order = << >>
    /\ last_timing_range = << >>
    /\ pattern_info = EmptyDict
    /\ timing_context = EmptyDict
    /\ timing_result = EmptyDict
    /\ pc = "translate"
    /\ RequestsIdle
    /\ interpreter = "translate_value"
    /\ raw_value \in TranslateInputs
    /\ interpreted = << >>

\* interpreted = field_manager.translate_value(raw_value)
Translate ==
    /\ pc = "translate"
    /\ interpreted' = Returns(TranslateValue(field_manager.translations, raw_value))
    /\ pc' = "translate_done"
    /\ UNCHANGED <<catalog_vars, timing_info, acquisition_order, last_timing_range,
                   pattern_info, timing_context, timing_result, interpreter, raw_value,
                   request_vars>>

NextTranslate == Translate

SpecTranslate == InitTranslate /\ [][NextTranslate]_vars

(***************************************************************************)
(* The catalog built from any listing of the entries of FieldData, under   *)
(* the operations of FieldManager and the changes of the settings that     *)
(* reach the lists.                                                        *)
(***************************************************************************)

\* Every listing of distinct entries of FieldData, in any file order.
WholeCatalogFiles ==
    UNION {{s \in [1..n -> Range(FieldData)] : \A i, j \in 1..n : i # j => s[i] # s[j]}
           : n \in 0..Len(FieldData)}

\* get_field_manager(), first call, with any of these files.
ConstructWholeCatalog ==
    /\ ~field_manager.exists
    /\ \E data \in WholeCatalogFiles, settings_file \in SettingsFiles :
          LET made == ConstructManagers(data, settings_file)
          IN /\ field_manager' = made.fm
             /\ settings_manager' = made.sm
    /\ returned' = NoReturn
    /\ UNCHANGED <<timing_vars, interpreter_vars, request_vars>>

NextOrder ==
    \/ ConstructWholeCatalog
    \/ SetLanguage
    \/ GetFieldStructure
    \/ GetCompleteFieldStructure
    \/ GetFieldDefinitions
    \/ GetCategoriesWithFields
    \/ CheckAndUpdateFilters
    \/ NotifyFilterUpdate
    \/ SetFieldVisibility
    \/ SetSettingsLanguage

SpecOrder == Init /\ [][NextOrder]_vars

(***************************************************************************)
(* Concurrent requests on the shared FieldManager.  FieldManager takes no  *)
(* lock: a request runs _update_filtered_definitions statement by          *)
(* statement, and the statements of several requests interleave.  The      *)
(* SettingsManager changes its filter settings under its own lock, in one  *)
(* step.  The language does not change while the requests run.             *)
(***************************************************************************)

NumRequests == 2    \* requests that may be in progress at once

MaxChanges == 1     \* filter settings put in force while the requests run

Requests == 1..NumRequests

\* The operations of FieldManager a request may call.
RequestOps == {"notify_filter_update", "get_field_definitions", "get_field_structure"}

\* A request that has not called anything.  "result" is << >> until the call
\* returns and <<value>> afterwards.
IdleRequest == [op |-> "none", pc |-> "idle", i |-> 0, result |-> << >>]

\* The managers once get_field_manager() has returned, with no request in
\* progress.
InitConcurrent ==
    /\ \E data \in FieldMetadataFiles, settings_file \in SettingsFiles :
          /\ Len(data) = Cardinality(FieldUniverse)
          /\ LET made == ConstructManagers(data, settings_file)
             IN /\ field_manager = made.fm
                /\ settings_manager = made.sm
                /\ in_force = {made.sm.filter_settings}
    /\ returned = NoReturn
    /\ TimingIdle
    /\ InterpreterIdle
    /\ requests = [r \in Requests |-> IdleRequest]

\* A request calls one of the operations, once.  notify_filter_update goes straight
\* to _update_filtered_definitions; the two reads call
\* check_and_update_filters first (_filter_initialized is set, and the
\* language of the settings is current_language).
StartRequest(r) ==
    /\ requests[r].pc = "idle"
    /\ \E op \in RequestOps :
          requests' = [requests EXCEPT ![r] =
                          [op |-> op,
                           pc |-> IF op = "notify_filter_update" THEN "clear" ELSE "check",
                           i |-> 0, result |-> << >>]]
    /\ UNCHANGED <<catalog_vars, timing_vars, interpreter_vars, in_force>>

\* check_and_update_filters up to its call of _update_filtered_definitions.
CheckFilters(r) ==
    /\ requests[r].pc = "check"
    /\ LET current_filter_settings == FilterToDict(settings_manager.filter_settings)
           changed == IF field_manager.previous_filter_settings = << >> THEN TRUE
                      ELSE current_filter_settings
                               # field_manager.previous_filter_settings[1]
       IN IF changed
          THEN /\ field_manager' = [field_manager EXCEPT
                                       !.previous_filter_settings =
                                           <<current_filter_settings>>]
               /\ requests' = [requests EXCEPT ![r].pc = "clear"]
          ELSE /\ requests' = [requests EXCEPT ![r].pc = "return"]
               /\ UNCHANGED field_manager
    /\ UNCHANGED <<settings_manager, returned, timing_vars, interpreter_vars, in_force>>

\* _update_filtered_definitions: self._filtered_field_definitions = []
ClearFiltered(r) ==
    /\ requests[r].pc = "clear"
    /\ field_manager' = [field_manager EXCEPT !.filtered_field_definitions = << >>]
    /\ requests' = [requests EXCEPT ![r].pc = "append", ![r].i = 1]
    /\ UNCHANGED <<settings_manager, returned, timing_vars, interpreter_vars, in_force>>

\* _update_filtered_definitions: one turn of the loop over the complete list.
\* The copy is appended to the list the attribute holds at that moment.
AppendVisible(r) ==
    /\ requests[r].pc = "append"
    /\ LET defs == field_manager.complete_field_definitions
           i == requests[r].i
       IN IF i > Len(defs)
          THEN /\ requests' = [requests EXCEPT
                                  ![r].pc = IF requests[r].op = "notify_filter_update"
                                            THEN "done" ELSE "return"]
               /\ UNCHANGED field_manager
          ELSE /\ field_manager' =
                      IF IsFieldVisible(settings_manager.filter_settings, defs[i].index)
                      THEN [field_manager EXCEPT
                               !.filtered_field_definitions = Append(@, defs[i])]
                      ELSE field_manager
               /\ requests' = [requests EXCEPT ![r].i = i + 1]
    /\ UNCHANGED <<settings_manager, returned, timing_vars, interpreter_vars, in_force>>

\* The read returns what the attribute holds: the list itself for
\* get_field_definitions, the dicts built from it for get_field_structure.
ReturnFiltered(r) ==
    /\ requests[r].pc = "return"
    /\ requests' = [requests EXCEPT
                       ![r].pc = "done",
                       ![r].result =
                           IF requests[r].op = "get_field_structure"
                           THEN <<FieldStructure(field_manager.filtered_field_definitions)>>
                           ELSE <<field_manager.filtered_field_definitions>>]
    /\ UNCHANGED <<catalog_vars, timing_vars, interpreter_vars, in_force>>

\* Another request changes the visibility of a field in the settings.
ChangeVisibility ==
    /\ Cardinality(in_force) <= MaxChanges
    /\ \E field_index \in FilterFieldKeys, visible \in BOOLEAN :
          settings_manager' = SetFieldVisibilityOf(settings_manager, field_index, visible)
    /\ in_force' = in_force \cup {settings_manager'.filter_settings}
    /\ UNCHANGED <<field_manager, returned, timing_vars, interpreter_vars, requests>>

NextConcurrent ==
    \/ \E r \in Requests : StartRequest(r)
    \/ \E r \in Requests : CheckFilters(r)
    \/ \E r \in Requests : ClearFiltered(r)
    \/ \E r \in Requests : AppendVisible(r)
    \/ \E r \in Requests : ReturnFiltered(r)
    \/ ChangeVisibility

SpecConcurrent == InitConcurrent /\ [][NextConcurrent]_vars

(***************************************************************************)
(* Properties of the catalog (checked under Spec).                         *)
(***************************************************************************)

\* The identifiers of a list of definitions, in order.
Identifiers(defs) == [i \in DOMAIN defs |-> defs[i].index]

\* a is b with some elements left out, the others in the same order.
RECURSIVE IsSubsequence(_, _)
IsSubsequence(a, b) ==
    IF a = << >> THEN TRUE
    ELSE IF b = << >> THEN FALSE
    ELSE IF Head(a) = Head(b) THEN IsSubsequence(Tail(a), Tail(b))
    ELSE IsSubsequence(a, Tail(b))

\* C1: after every operation of the catalog and every visibility change, the
\* identifiers of the filtered list are a subsequence of the identifiers of
\* the complete list, and the filtered list is no longer than the complete one.
C1_FilteredIsSubsequence ==
    field_manager.exists =>
        /\ IsSubsequence(Identifiers(field_manager.filtered_field_definitions),
                         Identifiers(field_manager.complete_field_definitions))
        /\ Len(field_manager.filtered_field_definitions)
               <= Len(field_manager.complete_field_definitions)

\* A catalog of two definitions that the sort has reordered, both visible,
\* after a visibility change hid and showed one of them.
C1_Witness ==
    /\ field_manager.exists
    /\ Identifiers(field_manager.complete_field_definitions) = <<"META_AGE", "META_TR">>
    /\ Identifiers(field_manager.filtered_field_definitions) = <<"META_AGE", "META_TR">>
    /\ field_manager.previous_filter_settings # << >>
    /\ "META_TR" \in DOMAIN settings_manager.filter_settings.fields

\* C2: the list get_field_definitions returns holds exactly the definitions
\* of the complete list that are visible in the settings at the time of the
\* call, whatever visibility changes were made without notifying the catalog.
C2_NoStaleFilteredView ==
    returned.op = "get_field_definitions" =>
        returned.value =
            VisibleCopies(field_manager.complete_field_definitions, settings_manager)

(***************************************************************************)
(* Properties of the order extraction and of the classifier (checked       *)
(* under SpecTiming).                                                      *)
(***************************************************************************)

\* A non-empty list of numbers.
IsNumericArray(info) ==
    /\ info.kind = "list"
    /\ info.val # << >>
    /\ \A i \in DOMAIN info.val : info.val[i].kind = "num"

\* The timestamps of a numeric array.
Timestamps(info) == [i \in DOMAIN info.val |-> info.val[i].val]

\* C3: for a non-empty array of n timestamps the extracted order has length
\* n and holds every integer of 1..n exactly once; when the timestamps are
\* distinct its first element is the position of the smallest timestamp.
C3_OrderIsPermutation ==
    (pc # "start" /\ IsNumericArray(timing_info)) =>
        LET t == Timestamps(timing_info)
            n == Len(t)
        IN /\ Len(acquisition_order) = n
           /\ \A k \in 1..n :
                 Cardinality({i \in 1..n : acquisition_order[i] = k}) = 1
           /\ (\A i, j \in 1..n : i # j => t[i] # t[j])
                 => t[acquisition_order[1]] = MinOf(t)

\* An array with repeated timestamps whose order has been extracted.
C3_Witness ==
    /\ pc = "extracted"
    /\ timing_info = NumList(<<1, 0, 1, 0>>)
    /\ acquisition_order = <<2, 4, 1, 3>>

\* C4: the extracted order lists the positions by ascending timestamp,
\* positions of equal timestamps in their original order; the timestamps
\* [400, 0, 800, 200, 600] give [2, 4, 1, 5, 3].
C4_OrderIsStableAscending ==
    (pc # "start" /\ IsNumericArray(timing_info)) =>
        LET t == Timestamps(timing_info)
            n == Len(t)
            o == acquisition_order
        IN /\ Len(o) = n
           /\ \A i, j \in 1..n :
                 i < j => \/ t[o[i]] < t[o[j]]
                          \/ t[o[i]] = t[o[j]] /\ o[i] < o[j]
           /\ timing_info = NumList(<<400, 0, 800, 200, 600>>)
                 => o = <<2, 4, 1, 5, 3>>

\* The array [400, 0, 800, 200, 600] after the extraction.
C4_Witness ==
    /\ pc = "extracted"
    /\ timing_info = NumList(<<400, 0, 800, 200, 600>>)
    /\ acquisition_order = <<2, 4, 1, 5, 3>>

\* The odd indices of 1..n ascending, then the even ones ascending.
OddsThenEvens(n) ==
    [i \in 1..n |-> IF i <= (n + 1) \div 2 THEN 2 * i - 1 ELSE 2 * (i - (n + 1) \div 2)]

\* C5: for every slice count n >= 3 the order "odd indices ascending, then
\* even indices ascending" is classified Interleaved (Odd-Even).
C5_OddsThenEvensIsInterleaved ==
    ( /\ pc = "analyzed"
      /\ Len(acquisition_order) >= 3
      /\ acquisition_order = OddsThenEvens(Len(acquisition_order)) )
        => pattern_info.pattern_name = "Interleaved (Odd-Even)"

\* C6 as stated: for every slice count n >= 2 the order 1..n is classified
\* Sequential (Ascending) and the order n..1 Sequential (Descending).
C6_SequentialFromTwo ==
    (pc = "analyzed" /\ Len(acquisition_order) >= 2) =>
        /\ acquisition_order = Ascending(Len(acquisition_order))
              => pattern_info.pattern_name = "Sequential (Ascending)"
        /\ acquisition_order = Descending(Len(acquisition_order))
              => pattern_info.pattern_name = "Sequential (Descending)"

\* C6 as amended: for every slice count n >= 3 the order 1..n is classified
\* Sequential (Ascending) and the order n..1 Sequential (Descending); of two
\* slices, [1,2] is Interleaved (Odd-Even) and [2,1] Interleaved (Even-Odd).
C6_SequentialFromThree ==
    pc = "analyzed" =>
        LET n == Len(acquisition_order)
            name == pattern_info.pattern_name
        IN /\ (n >= 3 /\ acquisition_order = [i \in 1..n |-> i])
                 => name = "Sequential (Ascending)"
           /\ (n >= 3 /\ acquisition_order = [i \in 1..n |-> n - (i - 1)])
                 => name = "Sequential (Descending)"
           /\ acquisition_order = <<1, 2>> => name = "Interleaved (Odd-Even)"
           /\ acquisition_order = <<2, 1>> => name = "Interleaved (Even-Odd)"

\* The order [5,4,3,2,1] classified.
C6_Witness ==
    /\ pc = "analyzed"
    /\ acquisition_order = <<5, 4, 3, 2, 1>>
    /\ pattern_info.pattern_name = "Sequential (Descending)"

\* The rules of the classifier in the order they are tried, each with the
\* name it gives.
ClassifierRules(order) ==
    LET n == Len(order)
        first_half == SubSeq(order, 1, n \div 2)
        second_half == SubSeq(order, n \div 2 + 1, n)
    IN << <<"Interleaved (Odd-Even)", AllOdd(first_half) /\ AllEven(second_half)>>,
          <<"Interleaved (Even-Odd)", AllEven(first_half) /\ AllOdd(second_half)>>,
          <<"Sequential (Ascending)", \A i \in 1..n : order[i] = i>>,
          <<"Sequential (Descending)", \A i \in 1..n : order[i] = n + 1 - i>>,
          <<"Center-Out", IsCenterOutPattern(order)>>,
          <<"Out-Center", IsOutCenterPattern(order)>>,
          <<"Multi-band/SMS", IsMultibandPattern(order)>>,
          <<"Custom/Non-standard", TRUE>> >>

\* C7: for a permutation of 1..n the classifier returns one of the eight
\* pattern names, never "Unknown", and it is the name of the first rule that
\* matches in the order Interleaved, Sequential, Center-Out, Out-Center,
\* Multiband, Custom.
C7_FirstMatchingRule ==
    pc = "analyzed" =>
        LET rules == ClassifierRules(acquisition_order)
            first == CHOOSE r \in 1..Len(rules) :
                         rules[r][2] /\ \A q \in 1..(r - 1) : ~rules[q][2]
        IN /\ pattern_info.pattern_name \in {rules[r][1] : r \in 1..Len(rules)}
           /\ Cardinality({rules[r][1] : r \in 1..Len(rules)}) = 8
           /\ pattern_info.pattern_name # "Unknown"
           /\ pattern_info.pattern_name = rules[first][1]

\* An order that only the Multiband rule matches, classified.
C7_Witness ==
    /\ pc = "analyzed"
    /\ acquisition_order = <<1, 3, 5, 7, 9, 2, 4, 6, 8>>
    /\ pattern_info.pattern_name = "Multi-band/SMS"

(***************************************************************************)
(* Properties of the vendor dispatch (checked under SpecDispatch).         *)
(***************************************************************************)

\* Two characters that are the same letter in either case, or equal.
SameLetter(a, b) ==
    \/ a = b
    \/ \E k \in DOMAIN LowerLetters : {a, b} = {LowerLetters[k], UpperLetters[k]}

\* word occurs in chars when the case of letters is ignored.
ContainsIgnoringCase(word, chars) ==
    \E i \in 0..(Len(chars) - Len(word)) :
        \A j \in 1..Len(word) : SameLetter(chars[i + j], word[j])

\* The manufacturer of a context as text: empty when there is no entry,
\* "None" when the entry is None.
ManufacturerText(context) ==
    IF "manufacturer" \notin DOMAIN context THEN << >>
    ELSE IF context.manufacturer = None THEN <<"N", "o", "n", "e">>
    ELSE context.manufacturer.val

NamesSiemens(context) == ContainsIgnoringCase(SIEMENS, ManufacturerText(context))
NamesGe(context) == ContainsIgnoringCase(GE, ManufacturerText(context))
NamesPhilips(context) == ContainsIgnoringCase(PHILIPS, ManufacturerText(context))

\* C8: on the GE path the result is that of the first field that is not
\* None among trigger time, RTIA timer, protocol data block, whatever the
\* later fields hold; it is labelled Yes for trigger time and RTIA timer,
\* Partial for the protocol data block, and No when all three are None.
C8_GeFirstPresentField ==
    (pc = "done" /\ NamesGe(timing_context) /\ ~NamesSiemens(timing_context)) =>
        LET trigger_time == timing_context.trigger_time
            rtia_timer == timing_context.rtia_timer
            protocol_block == timing_context.protocol_data_block
            available == timing_result["Slice Timing Available"]
            source == Get(timing_result, "Slice Timing Source", "")
        IN /\ trigger_time # None =>
                 /\ available = "Yes"
                 /\ source = "GE Trigger Time (0018,1060)"
                 /\ "RTIA Timer" \notin DOMAIN timing_result
           /\ (trigger_time = None /\ rtia_timer # None) =>
                 /\ available = "Yes"
                 /\ source = "GE RTIA Timer (0021,105E)"
                 /\ "Trigger Time" \notin DOMAIN timing_result
           /\ (trigger_time = None /\ rtia_timer = None /\ protocol_block # None) =>
                 /\ available = "Partial"
                 /\ source = "GE Protocol Data Block (0025,101B)"
           /\ (trigger_time = None /\ rtia_timer = None /\ protocol_block = None) =>
                 /\ available = "No"
                 /\ "Slice Timing Source" \notin DOMAIN timing_result

\* A GE context whose trigger time is 0 and whose RTIA timer is present,
\* answered with the trigger time.
C8_Witness ==
    /\ pc = "done"
    /\ "manufacturer" \in DOMAIN timing_context
    /\ timing_context.manufacturer = Str(<<"G", "E">>)
    /\ timing_context.trigger_time = Num(0)
    /\ timing_context.rtia_timer # None
    /\ timing_result["Slice Timing Source"] = "GE Trigger Time (0018,1060)"
    /\ timing_result["Trigger Time"] = <<"0">>

\* C9: a context whose manufacturer names none of Siemens, GE, Philips
\* (case ignored; no manufacturer and an empty one included) is answered
\* with the single entry "Unsupported manufacturer", whatever timing fields
\* it holds.
C9_UnsupportedManufacturer ==
    ( /\ pc = "done"
      /\ ~NamesSiemens(timing_context)
      /\ ~NamesGe(timing_context)
      /\ ~NamesPhilips(timing_context) )
        => /\ DOMAIN timing_result = {"Slice Timing"}
           /\ timing_result["Slice Timing"] = "Unsupported manufacturer"

\* A context of an unknown manufacturer holding timing fields of every
\* vendor, answered.
C9_Witness ==
    /\ pc = "done"
    /\ "manufacturer" \in DOMAIN timing_context
    /\ timing_context.manufacturer = Str(Canon)
    /\ timing_context.slice_timing_siemens # None
    /\ timing_context.trigger_time # None
    /\ timing_context.frame_acquisition_time # None
    /\ DOMAIN timing_result = {"Slice Timing"}

\* What tells the results of the three vendor paths apart.
IsSiemensResult(result) ==
    \/ Get(result, "Slice Timing Source", "") \in
           {"Siemens MosaicRefAcqTimes (0019,1029)", "Public tag (0018,9074)"}
    \/ Get(result, "Slice Timing Note", "") = "Siemens timing tags not found"
    \/ "Slice Timing Error" \in DOMAIN result

IsGeResult(result) ==
    \/ Get(result, "Slice Timing Source", "") \in
           {"GE Trigger Time (0018,1060)", "GE RTIA Timer (0021,105E)",
            "GE Protocol Data Block (0025,101B)"}
    \/ Get(result, "Slice Timing Note", "") =
           "GE timing information not found in standard tags"

IsPhilipsResult(result) ==
    \/ Get(result, "Slice Timing Source", "") \in
           {"Philips Temporal Position (0020,0100)", "Frame Acquisition Time (0018,9074)"}
    \/ Get(result, "Slice Timing Note", "") =
           "Philips typically does not store slice timing in DICOM headers"

\* C10: the vendor path is chosen by the manufacturer text alone, case
\* ignored, in the priority Siemens, GE, Philips: a text naming Siemens is
\* handled by the Siemens path even if it names GE or Philips too, and a
\* text naming GE and not Siemens by the GE path even if it names Philips.
C10_VendorPriority ==
    pc = "done" =>
        /\ NamesSiemens(timing_context) => IsSiemensResult(timing_result)
        /\ (NamesGe(timing_context) /\ ~NamesSiemens(timing_context))
              => IsGeResult(timing_result)
        /\ ( /\ NamesPhilips(timing_context)
             /\ ~NamesGe(timing_context)
             /\ ~NamesSiemens(timing_context) )
              => IsPhilipsResult(timing_result)

\* A context naming both Siemens and GE, with a trigger time, answered by
\* the Siemens path.
C10_Witness ==
    /\ pc = "done"
    /\ "manufacturer" \in DOMAIN timing_context
    /\ timing_context.manufacturer =
           Str(<<"S", "i", "e", "m", "e", "n", "s", "G", "E">>)
    /\ timing_context.trigger_time # None
    /\ timing_context.slice_timing_siemens = None
    /\ IsSiemensResult(timing_result)
    /\ ~IsGeResult(timing_result)

(***************************************************************************)
(* Properties of the Siemens path (checked under SpecSiemens).             *)
(***************************************************************************)

\* The Siemens reference times of a context are an array of numbers that is
\* not empty (a lone number counts as an array of one).
HasNumericTiming(context) ==
    LET info == ContextGet(context, "slice_timing_siemens")
    IN \/ info.kind = "num"
       \/ /\ info.kind = "list"
          /\ info.val # << >>
          /\ \A i \in DOMAIN info.val : info.val[i].kind = "num"

\* The entries that carry data of a successful analysis.
AnalysisEntries ==
    { "Number of Slices", "Acquisition Order (first 8)", "Acquisition Pattern",
      "Pattern Details", "Timing Range (ms)", "Image Type",
      "Estimated Slice Interval (ms)", "Slice Timing Source" }

\* C11: on the Siemens path, reference times that are present but are no
\* non-empty array of numbers give the parse-error result: availability
\* "Error" and one error entry, with no slice count, order, pattern or
\* timing range.
C11_ParseErrorHasNoPartialData ==
    ( /\ pc = "siemens_done"
      /\ ContextGet(timing_context, "slice_timing_siemens") # None
      /\ ~HasNumericTiming(timing_context) )
        => /\ DOMAIN timing_result = {"Slice Timing Available", "Slice Timing Error"}
           /\ timing_result["Slice Timing Available"] = "Error"
           /\ DOMAIN timing_result \cap AnalysisEntries = {}

\* Reference times of which one element is no number, answered with the
\* parse error.
C11_Witness ==
    /\ pc = "siemens_done"
    /\ timing_context # EmptyDict
    /\ timing_context.slice_timing_siemens = List(<<Num(0), Str(<<"n", "/", "a">>)>>)
    /\ timing_context.tr = Num(2000)
    /\ timing_result["Slice Timing Available"] = "Error"

\* The number of reference times of a context that has numeric timing.
NumberOfTimestamps(context) ==
    LET info == ContextGet(context, "slice_timing_siemens")
    IN IF info.kind = "list" THEN Len(info.val) ELSE 1

\* The number of tenths a text "ddd.d" denotes.
ParseTenths(chars) ==
    ParseNatural(SelectSeq(chars, LAMBDA c : c # "."))

\* The text of the image-type tag; a missing tag has none.
ImageTypeText(context) ==
    LET image_type == ContextGet(context, "image_type")
    IN IF image_type.kind = "str" THEN image_type.val ELSE << >>

\* C12: on the Siemens path a successful analysis of n slices reports the
\* slice count n, the image type "Mosaic" exactly when the image-type tag
\* contains MOSAIC (case ignored) and "Standard" otherwise, and the estimated
\* slice interval TR / n (to one decimal) exactly when the repetition time
\* of the context is a number, the number 0 included.
C12_CountImageTypeAndInterval ==
    (pc = "siemens_done" /\ HasNumericTiming(timing_context)) =>
        LET n == NumberOfTimestamps(timing_context)
            tr == ContextGet(timing_context, "tr")
            interval == "Estimated Slice Interval (ms)"
        IN /\ "Number of Slices" \in DOMAIN timing_result
           /\ ParseNatural(timing_result["Number of Slices"]) = n
           /\ "Image Type" \in DOMAIN timing_result
           /\ timing_result["Image Type"] =
                  IF ContainsIgnoringCase(MOSAIC, ImageTypeText(timing_context))
                  THEN "Mosaic" ELSE "Standard"
           /\ (interval \in DOMAIN timing_result) <=> (tr.kind = "num")
           /\ (interval \in DOMAIN timing_result) =>
                  LET tenths == ParseTenths(timing_result[interval])
                      twice_error == 20 * tr.val - 2 * tenths * n
                  IN -n <= twice_error /\ twice_error <= n

\* C13: on the Siemens path without reference times, a frame acquisition
\* time that is present (whatever its value, 0 and the empty text included)
\* gives the frame-acquisition-time result; the "not found" result is given
\* only when the frame acquisition time is missing too.
C13_FrameTimeFallbackWhenPresent ==
    ( /\ pc = "siemens_done"
      /\ ContextGet(timing_context, "slice_timing_siemens") = None )
        => IF ContextGet(timing_context, "frame_acquisition_time") # None
           THEN /\ timing_result["Slice Timing Available"] = "Yes (Frame Acquisition Time)"
                /\ Get(timing_result, "Slice Timing Source", "") = "Public tag (0018,9074)"
           ELSE /\ timing_result["Slice Timing Available"] = "No"
                /\ Get(timing_result, "Slice Timing Note", "") =
                       "Siemens timing tags not found"

(***************************************************************************)
(* Properties of the Philips path (checked under SpecDispatch).            *)
(***************************************************************************)

\* C14: on the Philips path the temporal position is tried before the frame
\* acquisition time: a present temporal position decides the result whatever
\* the frame acquisition time holds; both sources are labelled "Partial";
\* with both missing the result is "No" with a recommendation; no result of
\* this path is labelled "Yes".
C14_PhilipsTemporalPositionFirst ==
    ( /\ pc = "done"
      /\ NamesPhilips(timing_context)
      /\ ~NamesGe(timing_context)
      /\ ~NamesSiemens(timing_context) )
        => LET temporal_pos == timing_context.temporal_position_identifier
               frame_time == timing_context.frame_acquisition_time
               available == timing_result["Slice Timing Available"]
               source == Get(timing_result, "Slice Timing Source", "")
           IN /\ temporal_pos # None =>
                    /\ available = "Partial"
                    /\ source = "Philips Temporal Position (0020,0100)"
              /\ (temporal_pos = None /\ frame_time # None) =>
                    /\ available = "Partial"
                    /\ source = "Frame Acquisition Time (0018,9074)"
              /\ (temporal_pos = None /\ frame_time = None) =>
                    /\ available = "No"
                    /\ "Recommendation" \in DOMAIN timing_result
                    /\ "Slice Timing Source" \notin DOMAIN timing_result
              /\ available # "Yes"

\* A Philips context holding both a temporal position and a frame
\* acquisition time, answered with the temporal position.
C14_Witness ==
    /\ pc = "done"
    /\ "manufacturer" \in DOMAIN timing_context
    /\ timing_context.manufacturer = Str(<<"p", "h", "i", "l", "i", "p", "s">>)
    /\ timing_context.temporal_position_identifier # None
    /\ timing_context.frame_acquisition_time = Num(3)
    /\ timing_result["Slice Timing Source"] = "Philips Temporal Position (0020,0100)"

(***************************************************************************)
(* The notation of an order as text, read back (checked under SpecSiemens).*)
(***************************************************************************)

\* The position of the first c in chars, 0 when there is none.
FirstIndexOf(chars, c) ==
    IF \E i \in DOMAIN chars : chars[i] = c
    THEN CHOOSE i \in DOMAIN chars : chars[i] = c /\ \A j \in 1..(i - 1) : chars[j] # c
    ELSE 0

\* The pieces of chars between the occurrences of sep.
RECURSIVE SplitOn(_, _)
SplitOn(chars, sep) ==
    LET k == FirstIndexOf(chars, sep)
    IN IF k = 0 THEN <<chars>>
       ELSE <<SubSeq(chars, 1, k - 1)>> \o SplitOn(SubSeq(chars, k + 1, Len(chars)), sep)

\* The elements one token stands for: a literal, start:end (step 1 or -1 in
\* the direction of the end) or start:step:end.
ExpandToken(token) ==
    LET parts == SplitOn(SelectSeq(token, LAMBDA c : c # " "), ":")
        start == ParseInteger(parts[1])
        end == ParseInteger(parts[Len(parts)])
        step == IF Len(parts) = 3 THEN ParseInteger(parts[2])
                ELSE IF end >= start THEN 1 ELSE -1
    IN IF Len(parts) = 1 THEN <<start>>
       ELSE [i \in 1..(((end - start) \div step) + 1) |-> start + (i - 1) * step]

RECURSIVE ExpandTokens(_)
ExpandTokens(tokens) ==
    IF tokens = << >> THEN << >>
    ELSE ExpandToken(Head(tokens)) \o ExpandTokens(Tail(tokens))

\* The order a bracketed notation "[t1, t2, ...]" stands for.
ExpandNotation(chars) ==
    LET inner == SubSeq(chars, 2, FirstIndexOf(chars, "]") - 1)
    IN IF inner = << >> THEN << >> ELSE ExpandTokens(SplitOn(inner, ","))

\* What follows the closing bracket of a notation.
AfterNotation(chars) == SubSeq(chars, FirstIndexOf(chars, "]") + 1, Len(chars))

\* The order of the reference times of a context that has numeric timing:
\* the positions 1..n by ascending time, equal times in their array order.
OrderOfContext(context) ==
    LET info == ContextGet(context, "slice_timing_siemens")
        times == IF info.kind = "list" THEN [i \in DOMAIN info.val |-> info.val[i].val]
                 ELSE <<info.val>>
        Before(i, j) == times[i] < times[j] \/ (times[i] = times[j] /\ i < j)
    IN [k \in DOMAIN times |->
           CHOOSE i \in DOMAIN times :
               Cardinality({j \in DOMAIN times : Before(j, i)}) = k - 1]

OrderText == timing_result["Acquisition Order (first 8)"]

\* C15: the order text of a Siemens result is lossless for every number of
\* slices: expanding its tokens gives the complete acquisition order.
C15_OrderTextIsLossless ==
    (pc = "siemens_done" /\ HasNumericTiming(timing_context)) =>
        ExpandNotation(OrderText) = OrderOfContext(timing_context)

\* C15 as amended: the order text is the plain list of the order, without
\* range tokens; it gives the complete order when there are at most 8
\* slices, and otherwise the first 8 elements of the order followed by the
\* number of slices.
C15_OrderTextIsLosslessUpToEight ==
    (pc = "siemens_done" /\ HasNumericTiming(timing_context)) =>
        LET order == OrderOfContext(timing_context)
            n == Len(order)
            after == AfterNotation(OrderText)
        IN /\ \A i \in DOMAIN OrderText :
                  i <= FirstIndexOf(OrderText, "]") => OrderText[i] # ":"
           /\ n <= 8 => /\ ExpandNotation(OrderText) = order
                         /\ after = << >>
           /\ n > 8 => /\ ExpandNotation(OrderText) = SubSeq(order, 1, 8)
                        /\ after # << >>
                        /\ ParseNatural(SelectSeq(after,
                               LAMBDA c : c \in Range(DigitChars))) = n

\* An order of exactly 8 slices, the longest that is given in full.
C15_Witness ==
    /\ pc = "siemens_done"
    /\ HasNumericTiming(timing_context)
    /\ NumberOfTimestamps(timing_context) = 8
    /\ ExpandNotation(OrderText) = <<1, 3, 5, 7, 2, 4, 6, 8>>
    /\ AfterNotation(OrderText) = << >>


(***************************************************************************)
(* Properties of the interpreters of single values (checked under          *)
(* SpecInterpreter).                                                       *)
(***************************************************************************)

\* The value is an age code: three digits followed by one of Y, M, W, D.
IsAgeCode(value) ==
    /\ value.kind = "str"
    /\ Len(value.val) = 4
    /\ IsDigits(SubSeq(value.val, 1, 3))
    /\ value.val[4] \in {"Y", "M", "W", "D"}

\* The number of an age code, written without leading zeros.
AgeNumber(value) == DecimalString(ParseNatural(SubSeq(value.val, 1, 3)))

\* C16: the age interpreters turn an age code of three digits and a unit
\* letter Y/M/W/D into the number without leading zeros, a blank, and the
\* unit: the unit's word for _interpret_age ("034Y" gives "34 years"), the
\* unit's value token for META_AGE.
C16_AgeWithoutLeadingZeros ==
    (pc = "field_done" /\ IsAgeCode(raw_value)) =>
        /\ interpreter = "_interpret_age" =>
              interpreted = Returns(AgeNumber(raw_value) \o <<" ">>
                                        \o AgeUnitWords[raw_value.val[4]])
        /\ interpreter = "META_AGE" =>
              interpreted = Returns(AgeNumber(raw_value) \o <<" ">>
                                        \o AgeUnitTokens[raw_value.val[4]])


\* The text is YYYYMMDD: exactly eight digits.
IsEightDigits(chars) == Len(chars) = 8 /\ IsDigits(chars)

\* YYYY-MM-DD of a text YYYYMMDD.
Hyphenated(chars) ==
    SubSeq(chars, 1, 4) \o <<"-">> \o SubSeq(chars, 5, 6) \o <<"-">> \o SubSeq(chars, 7, 8)

\* A call of one of the two date interpreters has returned or raised.
DateInterpreted ==
    pc = "field_done" /\ interpreter \in {"META_STUDY_DATE", "_interpret_date"}

\* C17, as stated: the date interpreters map every string of exactly eight
\* digits to YYYY-MM-DD, return every other input that is not absent
\* unchanged as its string form, and give the placeholder for absent input.
C17_DateOfEightDigitStrings ==
    DateInterpreted =>
        interpreted =
            IF raw_value = None THEN Returns(Placeholder)
            ELSE IF raw_value.kind = "str" /\ IsEightDigits(raw_value.val)
            THEN Returns(Hyphenated(raw_value.val))
            ELSE Returns(PyStr(raw_value))

\* C17, amended: the date interpreters map every input whose string form is
\* exactly eight digits (an eight-digit string, or a number written with
\* eight digits) to YYYY-MM-DD, return every other input that is not absent
\* unchanged as its string form, and give the placeholder for absent input.
C17_DateOfEightDigitStringForms ==
    DateInterpreted =>
        interpreted =
            IF raw_value = None THEN Returns(Placeholder)
            ELSE IF IsEightDigits(PyStr(raw_value))
            THEN Returns(Hyphenated(PyStr(raw_value)))
            ELSE Returns(PyStr(raw_value))

\* A text of eight characters that are not all digits has been returned as
\* it was.
C17_Witness ==
    /\ DateInterpreted
    /\ raw_value = Str(<<"2", "0", "2", "4", "0", "1", "3", "a">>)
    /\ interpreted = Returns(raw_value.val)


\* The interpreters of specific_interpreters among InterpreterNames.
SpecificInterpreters == InterpreterNames \ {"_interpret_age", "_interpret_date"}

\* Those that format one number.
NumericInterpreters ==
    { "META_MAGNETIC_FIELD_STRENGTH", "META_TR_MS", "META_TE_MS", "META_TI_MS",
      "META_FLIP_ANGLE", "META_ECHO_TRAIN_LENGTH", "META_NUMBER_OF_AVERAGES",
      "META_PIXEL_BANDWIDTH", "META_SLICE_THICKNESS", "META_SLICE_SPACING",
      "META_BITS_STORED" }

\* C18: every interpreter of specific_interpreters returns a text and never
\* raises, whatever the raw value (absent, a number, a numeric or other
\* text, NaN, an infinity, a list or tuple of any length); absent input, and
\* input a numeric interpreter cannot parse, give the placeholder.
C18_InterpretersAreTotal ==
    (pc = "field_done" /\ interpreter \in SpecificInterpreters) =>
        /\ interpreted.kind = "returned"
        /\ raw_value = None => interpreted.val = Placeholder
        /\ (interpreter \in NumericInterpreters /\ ~FloatOf(raw_value).ok) =>
              interpreted.val = Placeholder


(***************************************************************************)
(* Properties of set_language and of the settings under the catalog's      *)
(* operations (checked under Spec).                                        *)
(***************************************************************************)

\* The translated names of a list of definitions, in order.
TranslatedNames(defs) == [i \in DOMAIN defs |-> defs[i].translated_name]

\* What a caller sees of a language change: the language of the settings,
\* the translation table, and the translated names of both lists.
TranslatedCatalog(fm, sm) ==
    [ language |-> sm.language,
      translations |-> fm.translations,
      complete |-> TranslatedNames(fm.complete_field_definitions),
      filtered |-> TranslatedNames(fm.filtered_field_definitions) ]

\* The catalog a second set_language(language) leaves, called in the state
\* the managers fm and sm are in.
AfterSetLanguage(fm, sm, language) ==
    LET sm1 == SetLanguageProperty(sm, language)
    IN TranslatedCatalog(UpdateLanguage(fm, sm1), sm1)

\* C19: set_language is idempotent: after set_language(L), a second
\* set_language(L) leaves the language of the settings, the translation
\* table and the translated names of the complete and of the filtered list
\* as the first call left them.
C19_SetLanguageIsIdempotent ==
    [][(returned'.op = "none" /\ SetLanguage) =>
          AfterSetLanguage(field_manager', settings_manager', settings_manager'.language)
              = TranslatedCatalog(field_manager', settings_manager')]_vars

\* The settings file asked for Chinese and hid a field; the language is now
\* English in the settings and in the catalog, whose names are the English
\* ones, and a further set_language("english") would change nothing.
C19_Witness ==
    /\ field_manager.exists
    /\ "META_OLD" \in DOMAIN settings_manager.stored_filter_data.fields
    /\ settings_manager.language = "english"
    /\ field_manager.current_language = "english"
    /\ field_manager.translations = LanguageFiles["english"]
    /\ Len(field_manager.complete_field_definitions) = NumFieldData
    /\ Len(field_manager.filtered_field_definitions) = 1
    /\ \A i \in DOMAIN field_manager.complete_field_definitions :
          field_manager.complete_field_definitions[i].translated_name
              = Get(LanguageFiles["english"],
                    field_manager.complete_field_definitions[i].index,
                    field_manager.complete_field_definitions[i].index)
    /\ AfterSetLanguage(field_manager, settings_manager, "english")
           = TranslatedCatalog(field_manager, settings_manager)


\* The step is one operation of FieldManager.
FieldManagerStep ==
    \/ returned'.op = "none" /\ (Construct \/ SetLanguage \/ NotifyFilterUpdate)
    \/ returned'.op = "get_field_structure" /\ GetFieldStructure
    \/ returned'.op = "get_complete_field_structure" /\ GetCompleteFieldStructure
    \/ returned'.op = "get_field_definitions" /\ GetFieldDefinitions
    \/ returned'.op = "get_categories_with_fields" /\ GetCategoriesWithFields
    \/ returned'.op = "check_and_update_filters" /\ CheckAndUpdateFilters

\* The settings a FieldManager operation finds: those of the state before
\* it, or, for the construction that creates the SettingsManager, those the
\* SettingsManager has loaded.
SettingsFound ==
    IF settings_manager.exists THEN settings_manager
    ELSE [settings_manager EXCEPT !.language = settings_manager'.language]

\* C20: no operation of FieldManager (construction, set_language, the
\* get_ operations, check_and_update_filters, notify_filter_update) changes
\* the language or the filter settings of the settings.
C20_FieldManagerLeavesSettingsAlone ==
    [][FieldManagerStep =>
          /\ settings_manager'.language = SettingsFound.language
          /\ settings_manager'.filter_settings = SettingsFound.filter_settings]_vars

(***************************************************************************)
(* Properties of the reads of the visible fields (checked under Spec).     *)
(***************************************************************************)

\* The name the language of the settings gives the identifier.
NameInSettingsLanguage(index) ==
    Get(IF settings_manager.language \in DOMAIN LanguageFiles
        THEN LanguageFiles[settings_manager.language] ELSE EmptyDict,
        index, index)

\* C21: once the language of the settings is L, every read of the visible
\* fields, by get_field_structure or by get_field_definitions, returns
\* definitions whose translated names are those of L, also when the language
\* was assigned in the settings without a call of set_language.
C21_ReadsUseSettingsLanguage ==
    /\ returned.op = "get_field_structure" =>
          \A i \in DOMAIN returned.value :
              returned.value[i].name = NameInSettingsLanguage(returned.value[i].index)
    /\ returned.op = "get_field_definitions" =>
          \A i \in DOMAIN returned.value :
              returned.value[i].translated_name
                  = NameInSettingsLanguage(returned.value[i].index)

(***************************************************************************)
(* Properties of concurrent requests on the catalog (checked under         *)
(* SpecConcurrent).                                                        *)
(***************************************************************************)

\* The filtered view under the filter settings fs.
FilteredViewUnder(fs) ==
    VisibleCopies(field_manager.complete_field_definitions,
                  [settings_manager EXCEPT !.filter_settings = fs])

\* C22: with several requests on the shared FieldManager, every list a read
\* (get_field_definitions, get_field_structure) returns is the complete
\* filtered view of some filter settings that were in force: no read sees a
\* list that is being rebuilt.
C22_ReadsSeeWholeFilteredViews ==
    \A r \in DOMAIN requests :
        (requests[r].pc = "done" /\ requests[r].op # "notify_filter_update") =>
            \E fs \in in_force :
                requests[r].result[1] =
                    IF requests[r].op = "get_field_structure"
                    THEN FieldStructure(FilteredViewUnder(fs))
                    ELSE FilteredViewUnder(fs)

(***************************************************************************)
(* Properties of the order of the catalog (checked under SpecOrder).       *)
(***************************************************************************)

\* The key of the claim: the position of the category in CATEGORY_ORDER, or
\* the length of CATEGORY_ORDER for a category that is not in it; the
\* priority; the identifier, by its rank among the identifiers.
OrderKey(item) ==
    << IF \E k \in DOMAIN CATEGORY_ORDER : CATEGORY_ORDER[k] = item.category
       THEN (CHOOSE k \in DOMAIN CATEGORY_ORDER : CATEGORY_ORDER[k] = item.category) - 1
       ELSE Len(CATEGORY_ORDER),
       item.priority,
       CHOOSE k \in DOMAIN IndexOrder : IndexOrder[k] = item.index >>

\* The items are in ascending order of their keys.
AscendingByKey(items) ==
    \A i, j \in DOMAIN items : i < j => ~TupleLess(OrderKey(items[j]), OrderKey(items[i]))

\* C23: after construction and after every operation of FieldManager, the
\* complete list is in ascending order of (category index, priority,
\* identifier), a category outside CATEGORY_ORDER coming last; so are the
\* lists get_complete_field_structure and get_field_structure return.
C23_CompleteListIsSorted ==
    /\ field_manager.exists => AscendingByKey(field_manager.complete_field_definitions)
    /\ returned.op \in {"get_complete_field_structure", "get_field_structure"} =>
          AscendingByKey(returned.value)

\* get_complete_field_structure has returned all four entries; the file
\* listed them in another order, and the entry of the unknown category is
\* last.
C23_Witness ==
    /\ returned.op = "get_complete_field_structure"
    /\ Len(returned.value) = Len(FieldData)
    /\ returned.value[Len(FieldData)].category \notin Range(CATEGORY_ORDER)
    /\ [i \in DOMAIN returned.value |-> returned.value[i].index]
           = <<"META_AGE", "META_TE", "META_TR", "META_VENDOR_NOTE">>

(***************************************************************************)
(* Properties of translate_value (checked under SpecTranslate).            *)
(***************************************************************************)

\* The positions at which a token of a text starts: a character that is no
\* whitespace, at the start of the text or after whitespace.
TokenStarts(chars) ==
    {a \in DOMAIN chars : ~IsSpace(chars[a]) /\ (a = 1 \/ IsSpace(chars[a - 1]))}

\* The tokens of a text: its maximal runs without whitespace, as pairs of
\* first and last position.
TokenSpans(chars) ==
    { <<a, CHOOSE b \in a..Len(chars) :
               /\ \A k \in a..b : ~IsSpace(chars[k])
               /\ b = Len(chars) \/ IsSpace(chars[b + 1])>> : a \in TokenStarts(chars) }

\* The k-th of them from the left.
TokenAt(chars, k) ==
    LET span == CHOOSE s \in TokenSpans(chars) :
                    Cardinality({a \in TokenStarts(chars) : a < s[1]}) = k - 1
    IN SubSeq(chars, span[1], span[2])

\* What the claim puts in the place of a token.
TokenTranslated(token, table) ==
    IF /\ \/ Len(token) >= 6 /\ SubSeq(token, 1, 6) = <<"V", "A", "L", "U", "E", "_">>
          \/ Len(token) >= 4 /\ SubSeq(token, 1, 4) = <<"M", "S", "G", "_">>
       /\ token \in DOMAIN table
    THEN table[token]
    ELSE token

\* out is the texts of places, in order, with one blank between neighbours.
RECURSIVE IsJoinOf(_, _)
IsJoinOf(out, places) ==
    IF places = << >> THEN out = << >>
    ELSE IF Len(places) = 1 THEN out = places[1]
    ELSE /\ Len(out) > Len(places[1])
         /\ SubSeq(out, 1, Len(places[1])) = places[1]
         /\ out[Len(places[1]) + 1] = " "
         /\ IsJoinOf(SubSeq(out, Len(places[1]) + 2, Len(out)), Tail(places))

\* C24: translate_value goes through a string token by token, in order: a
\* token starting with VALUE_ or MSG_ that has an entry in the translation
\* table is replaced by the entry, every other token stays as it is in its
\* place, and no token is dropped, repeated or moved.
C24_TranslatesTokenByToken ==
    (pc = "translate_done" /\ raw_value.kind = "str") =>
        LET chars == raw_value.val
            n == Cardinality(TokenSpans(chars))
        IN /\ interpreted.kind = "returned"
           /\ IsJoinOf(interpreted.val,
                       [k \in 1..n |->
                           TokenTranslated(TokenAt(chars, k), field_manager.translations)])

\* A token without a marker that has an entry, a tab, a marker token with
\* an entry and a trailing space: the first token is kept, the second is
\* translated, and one space joins them.
C24_Witness ==
    /\ pc = "translate_done"
    /\ field_manager.translations # EmptyDict
    /\ raw_value =
           Str(<<"M", "E", "T", "A", "_", "T", "R", "\t",
                 "V", "A", "L", "U", "E", "_", "Y", "E", "A", "R", "S", " ">>)
    /\ interpreted.val =
           <<"M", "E", "T", "A", "_", "T", "R", " ", "y", "e", "a", "r", "s">>

(***************************************************************************)
(* dicom_utils.py: DicomController._interpret_metadata and its gate        *)
(* _should_interpret_slice_timing.                                         *)
(***************************************************************************)

\* The substring of the scanning-sequence code that marks Echo-Planar.
EP == <<"E", "P">>

\* epi_indicators
EpiIndicators ==
    { <<"E", "P", "I">>, <<"M", "O", "S", "A", "I", "C">>, <<"F", "M", "R", "I">>,
      <<"D", "T", "I">>, <<"D", "W", "I">>, <<"B", "O", "L", "D">> }

\* supported_manufacturers
SupportedManufacturers == {SIEMENS, GE, PHILIPS}

\* timing_tags
TimingTags ==
    { "slice_timing_siemens", "trigger_time", "rtia_timer", "protocol_data_block",
      "temporal_position_identifier", "frame_acquisition_time" }

\* As ShouldInterpretSliceTiming, without the test of the scanning sequence.
ShouldInterpretSliceTimingWithoutMarker(raw_meta) ==
    LET image_type == ContextGet(raw_meta, "image_type")
        manufacturer == Upper(PyStr(Get(raw_meta, "manufacturer", Str(<< >>))))
    IN /\ Truthy(image_type) =>
              \E indicator \in EpiIndicators : Contains(indicator, Upper(PyStr(image_type)))
       /\ \E supported \in SupportedManufacturers : Contains(supported, manufacturer)
       /\ \E tag \in TimingTags : ContextGet(raw_meta, tag) # None

\* _should_interpret_slice_timing
ShouldInterpretSliceTiming(raw_meta) ==
    LET scanning_seq == Upper(PyStr(Get(raw_meta, "scanning_sequence", Str(<< >>))))
        image_type == ContextGet(raw_meta, "image_type")
        manufacturer == Upper(PyStr(Get(raw_meta, "manufacturer", Str(<< >>))))
    IN /\ Contains(EP, scanning_seq)
       /\ Truthy(image_type) =>
              \E indicator \in EpiIndicators : Contains(indicator, Upper(PyStr(image_type)))
       /\ \E supported \in SupportedManufacturers : Contains(supported, manufacturer)
       /\ \E tag \in TimingTags : ContextGet(raw_meta, tag) # None

\* The keys _interpret_metadata copies from the raw metadata into timing_context.
TimingContextKeys ==
    {"manufacturer", "device_model", "scanning_sequence", "image_type", "tr",
     "rows", "columns"} \cup TimingTags

\* timing_context = {key: raw.get(key), ...}
TimingContextOf(raw) == [key \in TimingContextKeys |-> ContextGet(raw, key)]

\* str.strip()
RECURSIVE Strip(_)
Strip(chars) ==
    IF chars = << >> THEN << >>
    ELSE IF IsSpace(chars[1]) THEN Strip(Tail(chars))
    ELSE IF IsSpace(chars[Len(chars)]) THEN Strip(SubSeq(chars, 1, Len(chars) - 1))
    ELSE chars

\* basic_interpreter._safe_str
SafeStr(value) ==
    IF value = None THEN <<EnDash>>
    ELSE IF Strip(PyStr(value)) # << >> THEN Strip(PyStr(value)) ELSE <<EnDash>>

\* interpret_basic_fields, on the two tags the gate reads as well.  Its other
\* entries are computed from tags the gate and the timing analysis do not
\* read; every one of its keys is a fixed label.
InterpretBasicFields(raw_meta) ==
    ("Manufacturer" :> SafeStr(ContextGet(raw_meta, "manufacturer")))
    @@ ("Scanning Sequence" :> SafeStr(ContextGet(raw_meta, "scanning_sequence")))

\* The raw metadata of a dataset: _extract_raw_metadata sets every key, to
\* None where the dataset lacks the tag.
ScanningSequenceValues ==
    { None, Str(<< >>), Str(<<"E", "P">>), Str(<<"e", "p">>), Str(<<"S", "E">>),
      Str(<<"G", "R">>), List(<<Str(<<"G", "R">>), Str(<<"E", "P">>)>>) }


RawManufacturers ==
    { None, Str(<<"S", "i", "e", "m", "e", "n", "s">>), Str(<<"G", "E">>),
      Str(<<"p", "h", "i", "l", "i", "p", "s">>), Str(Canon) }

RawMetadata ==
    [ scanning_sequence : ScanningSequenceValues,
      image_type : ImageTypeValues \cup {Str(<< >>)},
      manufacturer : RawManufacturers,
      device_model : {None},
      tr : {None, Num(2000)},
      rows : {None},
      columns : {None},
      slice_timing_siemens : {None, NumList(<<400, 0, 800, 200, 600>>)},
      trigger_time : {None, Num(120)},
      rtia_timer : {None, Num(7)},
      protocol_data_block : {None},
      temporal_position_identifier : {None, Num(1)},
      frame_acquisition_time : {None, Num(3)} ]

InitController ==
    /\ NoManagers
    /\ RequestsIdle
    /\ timing_info = << >>
    /\ acquisition_order = << >>
    /\ last_timing_range = << >>
    /\ pattern_info = EmptyDict
    /\ timing_context = EmptyDict
    /\ timing_result = EmptyDict
    /\ pc = "raw"
    /\ interpreter = "_interpret_metadata"
    /\ raw_value \in RawMetadata
    /\ interpreted = EmptyDict

\* _interpret_metadata.  timing_context and timing_result stay empty when
\* interpret_slice_timing is not called.
InterpretMetadata ==
    /\ pc = "raw"
    /\ LET basic_fields == InterpretBasicFields(raw_value)
           context == TimingContextOf(raw_value)
           got == InterpretSliceTiming(context, last_timing_range)
       IN IF ShouldInterpretSliceTiming(raw_value)
          THEN /\ timing_context' = context
               /\ timing_result' = got.result
               /\ last_timing_range' = got.range
               /\ interpreted' = got.result @@ basic_fields
          ELSE /\ interpreted' = basic_fields
               /\ UNCHANGED <<timing_context, timing_result, last_timing_range>>
    /\ pc' = "interpreted"
    /\ UNCHANGED <<catalog_vars, request_vars, timing_info, acquisition_order,
                   pattern_info, interpreter, raw_value>>

NextController == InterpretMetadata

SpecController == InitController /\ [][NextController]_vars

\* What the caller of the controller shows for slice timing: "not
\* applicable" when no timing context was built, the results otherwise.
NotApplicable == ("Slice Timing" :> "not applicable")

RenderedSliceTiming(context, results) ==
    IF context = EmptyDict THEN NotApplicable ELSE results

(***************************************************************************)
(* C25: when the upper-cased text of the scanning-sequence code does not   *)
(* contain "EP" (a missing code included), _interpret_metadata does not    *)
(* call interpret_slice_timing whatever the manufacturer and the timing    *)
(* tags are: no timing context is built, the interpreted metadata holds    *)
(* the basic fields only, and slice timing is shown as "not applicable",   *)
(* not as a vendor result or as "Unsupported manufacturer".                *)
(***************************************************************************)
LacksMarker(raw_meta) ==
    ~ContainsIgnoringCase(EP, PyStr(ContextGet(raw_meta, "scanning_sequence")))

ReachesCenterOut(order) ==
    LET n == Len(order)
        first_half == SubSeq(order, 1, n \div 2)
        second_half == SubSeq(order, n \div 2 + 1, n)
    IN /\ ~(AllOdd(first_half) /\ AllEven(second_half))
       /\ ~(AllEven(first_half) /\ AllOdd(second_half))
       /\ order # Ascending(n)
       /\ order # Descending(n)

\* Every inspected index is at a distance from the center below limit.
FirstIndicesWithin(order, limit) ==
    \A i \in 1..Min2(4, Len(order) \div 4) :
        Abs(order[i] - Len(order) \div 2) < limit

C26_CenterOutIsStrict ==
    (pc = "analyzed" /\ ReachesCenterOut(acquisition_order)) =>
        /\ (pattern_info.pattern_name = "Center-Out")
               <=> FirstIndicesWithin(acquisition_order, Len(acquisition_order) \div 4)
        /\ Len(acquisition_order) < 4 => pattern_info.pattern_name = "Center-Out"

\* C26 as stated: a distance equal to n // 4 counts as within n // 4.
C26_CenterOutIsInclusive ==
    (pc = "analyzed" /\ ReachesCenterOut(acquisition_order)) =>
        /\ (pattern_info.pattern_name = "Center-Out")
               <=> FirstIndicesWithin(acquisition_order, Len(acquisition_order) \div 4 + 1)
        /\ Len(acquisition_order) < 4 => pattern_info.pattern_name = "Center-Out"

\* Sixteen slices acquired from slice 4 on: the first index is at distance
\* 4 = 16 // 4 from the center 8, and the order is not Center-Out.
C26_Witness ==
    /\ pc = "analyzed"
    /\ Len(acquisition_order) = 16
    /\ Prefix(acquisition_order, 4) = <<4, 5, 6, 7>>
    /\ ReachesCenterOut(acquisition_order)
    /\ pattern_info.pattern_name # "Center-Out"

(***************************************************************************)
(* C27: an order of at least four slices that reaches the Multiband rule   *)
(* (none of Interleaved, Sequential, Center-Out, Out-Center matches it)    *)
(* is named "Multi-band/SMS" exactly when the three differences between    *)
(* its first four elements are equal and greater than 1, whatever its      *)
(* fifth element and its length; the order 1,5,9,13,2,6,10,14,... of       *)
(* sixteen slices is named "Multi-band/SMS".                               *)
(***************************************************************************)
ReachesMultiband(order) ==
    /\ ReachesCenterOut(order)
    /\ ~IsCenterOutPattern(order)
    /\ ~IsOutCenterPattern(order)

FirstThreeGapsEqual(order) ==
    /\ order[2] - order[1] > 1
    /\ order[3] - order[2] = order[2] - order[1]
    /\ order[4] - order[3] = order[2] - order[1]

\* The example of the comment in _is_multiband_pattern, for MB = 4.
MultibandExample == <<1, 5, 9, 13, 2, 6, 10, 14, 3, 7, 11, 15, 4, 8, 12, 16>>

C27_MultibandByFirstFour ==
    (pc = "analyzed" /\ Len(acquisition_order) >= 4 /\ ReachesMultiband(acquisition_order)) =>
        /\ (pattern_info.pattern_name = "Multi-band/SMS")
               <=> FirstThreeGapsEqual(acquisition_order)
        /\ acquisition_order = MultibandExample
               => pattern_info.pattern_name = "Multi-band/SMS"

(***************************************************************************)
(* Two Siemens analyses served by the threads of the server at once.  A    *)
(* thread may be suspended between _extract_acquisition_order and          *)
(* _analyze_acquisition_pattern; _last_timing_range is the one module      *)
(* global both threads write and read.                                     *)
(***************************************************************************)

\* The timing arrays of the requests.
RequestArrays ==
    { NumList(<<400, 0, 800, 200, 600>>), NumList(<<0, 50, 100>>),
      NumList(<<10, 20>>), NumList(<<100, 0, 50>>),
      List(<<Num(0), Str(<<"n", "/", "a">>)>>) }

InitSiemensConcurrent ==
    /\ NoManagers
    /\ InterpreterIdle
    /\ timing_info = << >>
    /\ acquisition_order = << >>
    /\ last_timing_range = << >>
    /\ pattern_info = EmptyDict
    /\ timing_context = EmptyDict
    /\ timing_result = EmptyDict
    /\ pc = "serving"
    /\ requests \in [Requests ->
           {[pc |-> "start", timing_info |-> a, acquisition_order |-> << >>,
             timing_range |-> << >>] : a \in RequestArrays}]
    /\ in_force = {}

\* acquisition_order = _extract_acquisition_order(timing_info) in request r
ExtractOrderOf(r) ==
    /\ requests[r].pc = "start"
    /\ LET got == ExtractAcquisitionOrder(requests[r].timing_info, last_timing_range)
       IN /\ last_timing_range' = got.range
          /\ requests' = [requests EXCEPT
                 ![r].acquisition_order = got.order,
                 ![r].pc = IF got.order = << >> THEN "failed" ELSE "extracted"]
    /\ UNCHANGED <<catalog_vars, interpreter_vars, in_force, timing_info, acquisition_order,
                   pattern_info, timing_context, timing_result, pc>>

\* pattern_info = _analyze_acquisition_pattern(acquisition_order) in request
\* r, and the range the result of r reports.
AnalyzePatternOf(r) ==
    /\ requests[r].pc = "extracted"
    /\ LET pattern_info_ ==
               AnalyzeAcquisitionPattern(requests[r].acquisition_order, last_timing_range)
       IN requests' = [requests EXCEPT
              ![r].timing_range = pattern_info_.timing_range,
              ![r].pc = "done"]
    /\ UNCHANGED <<catalog_vars, interpreter_vars, in_force, timing_info, acquisition_order,
                   last_timing_range, pattern_info, timing_context, timing_result, pc>>

NextSiemensConcurrent ==
    \E r \in Requests : ExtractOrderOf(r) \/ AnalyzePatternOf(r)

SpecSiemensConcurrent == InitSiemensConcurrent /\ [][NextSiemensConcurrent]_vars

(***************************************************************************)
(* C28: when two Siemens analyses run interleaved, the timing range each   *)
(* successful result reports is the (min, max) of the timing array of its  *)
(* own request, never of the other request's array.                        *)
(***************************************************************************)
OwnRange(info) ==
    LET timing_array == [i \in DOMAIN info.val |-> info.val[i].val]
    IN <<MinOf(timing_array), MaxOf(timing_array)>>

C28_RangeIsOfOwnRequest ==
    \A r \in DOMAIN requests :
        (pc = "serving" /\ requests[r].pc = "done") =>
            requests[r].timing_range = OwnRange(requests[r].timing_info)

(***************************************************************************)
(* C29: the filtered view is determined by the field flags alone.  Every   *)
(* step that rebuilds the filtered view (it changes the view, or it takes  *)
(* a new snapshot of the filter settings, as the first read after          *)
(* set_category_visibility or update_filter_settings does) leaves in it    *)
(* exactly the definitions of the complete list whose own field flag is    *)
(* true or unset in the settings of that moment: a category flag set to    *)
(* not visible removes no definition.                                      *)
(***************************************************************************)
\* The field flag of the identifier is true or unset.
FlagTrueOrUnset(sm, field_index) ==
    \/ field_index \notin DOMAIN sm.filter_settings.fields
    \/ sm.filter_settings.fields[field_index]

\* The view holds exactly the definitions of the complete list with a field
\* flag that is true or unset.
ViewByFieldFlags(fm, sm) ==
    /\ IsSubsequence(Identifiers(fm.filtered_field_definitions),
                     Identifiers(fm.complete_field_definitions))
    /\ \A i \in DOMAIN fm.complete_field_definitions :
           (\E j \in DOMAIN fm.filtered_field_definitions :
                fm.filtered_field_definitions[j].index = fm.complete_field_definitions[i].index)
               <=> FlagTrueOrUnset(sm, fm.complete_field_definitions[i].index)

C29_ViewByFieldFlagsOnly ==
    [][ ( \/ field_manager'.filtered_field_definitions
                 # field_manager.filtered_field_definitions
          \/ field_manager'.previous_filter_settings
                 # field_manager.previous_filter_settings )
            => ViewByFieldFlags(field_manager', settings_manager') ]_vars

\* The category of META_TR is set to not visible, the view was rebuilt since
\* (the snapshot of the catalog holds the category flag) and holds META_TR.
C29_Witness ==
    /\ field_manager.exists
    /\ "ACQUISITION_PARAMS" \in DOMAIN settings_manager.filter_settings.categories
    /\ ~settings_manager.filter_settings.categories["ACQUISITION_PARAMS"]
    /\ field_manager.previous_filter_settings = <<FilterToDict(settings_manager.filter_settings)>>
    /\ FlagTrueOrUnset(settings_manager, "META_TR")
    /\ \E j \in DOMAIN field_manager.filtered_field_definitions :
           /\ field_manager.filtered_field_definitions[j].index = "META_TR"
           /\ field_manager.filtered_field_definitions[j].category = "ACQUISITION_PARAMS"

(***************************************************************************)
(* settings/settings.py: one SettingsManager, with                         *)
(* initialize_filter_settings called any number of times between the       *)
(* visibility changes.                                                     *)
(***************************************************************************)

\* The complete structures a caller may hand to initialize_filter_settings.
CompleteStructures ==
    {FieldStructure([i \in DOMAIN data |-> FieldDefinition(data[i])]) :
         data \in FieldMetadataFiles}

\* get_settings_manager() has built the manager from settings.json.
InitSettings ==
    /\ \E settings_file \in SettingsFiles :
           settings_manager = NewSettingsManager(settings_file)
    /\ field_manager = NoFieldManager
    /\ returned = NoReturn
    /\ TimingIdle
    /\ InterpreterIdle
    /\ RequestsIdle

\* settings_manager.initialize_filter_settings(complete_field_structure).
\* The structure handed over is kept in returned.value.
InitializeFilters ==
    /\ settings_manager.exists
    /\ \E complete_field_structure \in CompleteStructures :
          /\ settings_manager' =
                 InitializeFilterSettings(settings_manager, complete_field_structure)
          /\ returned' = [op |-> "initialize_filter_settings",
                          value |-> complete_field_structure]
    /\ UNCHANGED <<field_manager, timing_vars, interpreter_vars, request_vars>>

NextSettings ==
    \/ InitializeFilters
    \/ UpdateFilterSettings
    \/ ResetFilters
    \/ SetFieldVisibility
    \/ SetCategoryVisibility
    \/ SetSettingsLanguage

SpecSettings == InitSettings /\ [][NextSettings]_vars

(***************************************************************************)
(* C30: initialize_filter_settings takes effect once.  Its first call,     *)
(* with the structure S, leaves a field map whose keys are exactly the     *)
(* identifiers of S, each with the value settings.json stored for it, or   *)
(* true when it stored none; every later call, with any structure, leaves  *)
(* the filter settings as they are, the changes update_filter_settings and *)
(* reset_filters made in between included.                                 *)
(***************************************************************************)
\* The identifiers of a structure.
IdentifiersOf(structure) == {structure[i].index : i \in DOMAIN structure}

C30_InitializesOnce ==
    [][ (returned'.op = "initialize_filter_settings" /\ returned' # returned) =>
            IF settings_manager.initialized
            THEN settings_manager'.filter_settings = settings_manager.filter_settings
            ELSE /\ settings_manager'.initialized
                 /\ DOMAIN settings_manager'.filter_settings.fields
                        = IdentifiersOf(returned'.value)
                 /\ \A k \in IdentifiersOf(returned'.value) :
                        settings_manager'.filter_settings.fields[k] =
                            IF k \in DOMAIN settings_manager.stored_filter_data.fields
                            THEN settings_manager.stored_filter_data.fields[k]
                            ELSE TRUE ]_vars

\* A later call with both identifiers, after reset_filters emptied the field
\* map: the map is still empty.
C30_Witness ==
    /\ returned.op = "initialize_filter_settings"
    /\ IdentifiersOf(returned.value) = {"META_TR", "META_AGE"}
    /\ settings_manager.initialized
    /\ settings_manager.filter_settings = NewFilterSettings
    /\ settings_manager.stored_filter_data.fields # EmptyDict

====
